---- MODULE Spec2Model ----
(***************************************************************************)
(* A model of cspjs: the channel library (src/src/channel.js) and the task *)
(* state-machine runtime (src/src/state_machine.js).                       *)
(*                                                                         *)
(* Spec      one base Channel, the wrappers derived from it with           *)
(*           Object.create (buffer, droppingBuffer, expiringBuffer,        *)
(*           bucket: they share the base's _queue and _pending), its taps, *)
(*           fill, end, and the deferred-dispatch queue (nextTick).  A run *)
(*           uses one wrapper (or none) and, beside data puts and takes,   *)
(*           at most one of end(), fill() and taps, on the base channel.   *)
(* TaskSpec  one StateMachine: its State, the unwind stack, the resumption *)
(*           callbacks made by thenTo / thenToWithErr, the control API's   *)
(*           abort, and nextTick.  The compiled step function fn is an     *)
(*           input: each time the runtime calls it, its body makes one of  *)
(*           the calls the task compiler emits.                            *)
(***************************************************************************)
EXTENDS Integers, Sequences, FiniteSets, TLC

(* ------------------------------ bounds -------------------------------- *)
\* put calls made in one run
MaxPuts == 3
\* take calls made in one run
MaxTakes == 2
\* the wrapper's N (_bufferLength) is drawn from 0..MaxN
MaxN == 1
\* the bucket's low water mark is drawn from 0..MaxLow
MaxLow == 0
\* step bodies of a task that call into the runtime in one run
MaxFn == 3
\* step ids are drawn from 1..MaxStep
MaxStep == 1
\* abort() calls made on a task in one run
MaxAborts == 1
\* duplicate invocations of resumption callbacks in one run
MaxDups == 1
\* put calls made on the signal channel of until() in one run
MaxSignals == 1
\* the longest debounce interval, in milliseconds
MaxMs == 2
\* the milliseconds a run lasts
MaxTime == 3
\* the largest group size
MaxGroup == 2
\* the longest array given to resolve
MaxSlots == 2
\* the callbacks run in one run of resolve
MaxLog == 6
\* the calls into the runtime that the step bodies of a task with nested
\* try / catch / finally blocks make
MaxTry == 7
\* the case values of a switch are 1..MaxCase
MaxCase == 2
\* the most case blocks a switch has
MaxBlocks == 2
\* the most steps a case block has
MaxBlockSize == 1

(* ------------------------------ values -------------------------------- *)
\* JavaScript's null: the end-of-stream sentinel, and "no error"
Null == 0
\* an absent (undefined / null) callback
NoCb == <<"none", 0>>
\* the ack callback given to the k-th put call
Ack(k) == <<"ack", k>>
\* the callback given to the j-th take call
Taker(j) == <<"take", j>>
\* the function until() parks on the signal's tap
UntilCb == <<"until", 0>>
\* the functions merge() makes for source c
Writer(c) == <<"writer", c>>
Reader(c) == <<"reader", c>>
\* takeN's receive, and the callback takeN or takeSome was given
Receive == <<"receive", 0>>
TakeNCb == <<"takeN", 0>>
\* stream's next, and the callback stream was given
StreamNext == <<"next", 0>>
StreamCb == <<"stream", 0>>
\* resolve(): channel c as a thing (a value that is instanceof Channel); the
\* things that are not channels are the values from Null up
Chan(c) == 0 - c
\* resolveArray's receiver for slot i, the receiver resolveChannel makes
\* around it when recursive, and the callback resolve was given
Receiver(i) == <<"receiver", i>>
ChanReceiver(i) == <<"chanReceiver", i>>
ResolveCb == <<"resolve", 0>>
\* the function a take on the grouped channel parks for the j-th take call
GroupTaker(j) == <<"group", j>>
\* no error, as the first argument of a callback
NoErr == "null"
\* the values fill() is called with: null, and a value no put carries
FillValues == {Null, MaxPuts + 1}

\* the arrays a run may stream: non-null values, up to MaxPuts of them
Arrays == UNION {[1..n -> 1..2] : n \in 0..MaxPuts}

\* the tap channels a run may attach with tap()
TapIds == {1, 2}
\* the arrays a run may resolve: channels and a value no put carries
Things ==
    UNION {[1..n -> {Chan(c) : c \in TapIds} \cup {MaxPuts + 1}] :
              n \in 0..MaxSlots}
\* the wrapper a run uses beside the base channel ("base": none)
Modes == {"base", "buffer", "dropping", "expiring", "bucket"}
\* what a run uses beside data puts and takes: nothing, or one of end(),
\* fill(), and taps (with put(null), which ends them)
Feats == {"none", "end", "fill", "tap", "until", "merge", "group", "resolve"}

VARIABLES
    queue,      \* Channel._queue: parked CBV records, oldest first
    pending,    \* Channel._pending: parked taker callbacks, oldest first
    ticks,      \* nextTick's queue: calls scheduled and not yet run
    log,        \* the callbacks that have run, in order, with their arguments
    putImpl,    \* the base channel's put slot: the layers ("tap", "filled")
                \* installed over Channel.prototype.put, outermost last
    filled,     \* fill() has run: take is the constant take, fill is noop
    fillValue,  \* the value the channel was filled with
    tapsSet,    \* this._taps is an array (not undefined / null)
    taps,       \* this._taps: the attached tap channels, in order
    tapCh,      \* the other channels of a run, each a Channel of its own:
                \* the taps, or the sources of merge()
    ntaps,      \* tap() calls made
    ended,      \* end() was called: the channel has its own end slot
    susp,       \* bucket._suspendedTakes
    wtf,        \* bucket.waitingTillFull
    mode,       \* which wrapper of the base channel this run uses
    feat,       \* history: which of end, fill and taps the run has used
    bufLen,     \* the wrapper's _bufferLength (N)
    lowMark,    \* the bucket's _bucketLowWaterMark
    hung,       \* a call is in a loop that never ends
    threw,      \* the last call threw
    nput,       \* put calls made so far
    ntake,      \* take calls made so far
    putLog,     \* history: per put call, its value, the object it was made
                \* on, and the backlog it met
    used,       \* history: the kinds of call made so far
    limit,      \* the take calls and the tap calls a run makes at most
    done,       \* until(): the closure's done flag
    sig,        \* until(): the signal channel (its _queue, _pending, put
                \* slot and _taps)
    nsig,       \* put calls made on the signal channel
    timers,     \* the runtime's armed timeouts: the realPut calls to come
    timerId,    \* debounce(): ch._timer, the handle of a timeout (0: null)
    ms,         \* debounce(): ch._debounceInterval_ms
    now,        \* the time, in milliseconds
    tnGroup,      \* takeN(): the closure's group array
    tnN,        \* takeN(): the closure's N
    array,      \* stream(): the closure's array
    streamI,    \* stream(): the closure's i
    snap,       \* history: the values parked when takeSome() was called
    result,     \* reduce(): the closure's result (group's array)
    grpN,       \* group(): the closure's N
    arr,        \* resolve(): the array being resolved, slot by slot
    unresolved, \* resolveArray(): the closure's unresolved count
    recursive,  \* resolve(): its recursive argument
    thing       \* history: the array as it was given to resolve()

chanVars == <<queue, pending, ticks, log, putImpl, filled, fillValue, tapsSet,
              taps, tapCh, ntaps, ended, susp, wtf, mode, feat, bufLen, lowMark,
              hung, threw, nput, ntake, putLog, used, limit, done, sig, nsig,
              timers, timerId, ms, now, tnGroup, tnN, array, streamI, snap,
              result, grpN, arr, unresolved, recursive, thing>>

(* ------------------------- the channel's state ------------------------- *)
\* The fields the channel's methods read and write, as one record.
Cur ==
    [queue |-> queue, pending |-> pending, ticks |-> ticks, log |-> log,
     putImpl |-> putImpl, filled |-> filled, fillValue |-> fillValue,
     tapsSet |-> tapsSet, taps |-> taps, tapCh |-> tapCh,
     susp |-> susp, wtf |-> wtf, hung |-> FALSE, threw |-> FALSE,
     done |-> done, sig |-> sig, timers |-> timers, timerId |-> timerId,
     tnGroup |-> tnGroup, tnN |-> tnN, array |-> array, streamI |-> streamI,
     result |-> result, grpN |-> grpN, arr |-> arr,
     unresolved |-> unresolved, recursive |-> recursive, thing |-> thing]

Install(r) ==
    /\ queue' = r.queue
    /\ pending' = r.pending
    /\ ticks' = r.ticks
    /\ log' = r.log
    /\ putImpl' = r.putImpl
    /\ filled' = r.filled
    /\ fillValue' = r.fillValue
    /\ tapsSet' = r.tapsSet
    /\ taps' = r.taps
    /\ tapCh' = r.tapCh
    /\ susp' = r.susp
    /\ wtf' = r.wtf
    /\ hung' = r.hung
    /\ threw' = r.threw
    /\ done' = r.done
    /\ sig' = r.sig
    /\ timers' = r.timers
    /\ timerId' = r.timerId
    /\ tnGroup' = r.tnGroup
    /\ tnN' = r.tnN
    /\ array' = r.array
    /\ streamI' = r.streamI
    /\ result' = r.result
    /\ grpN' = r.grpN
    /\ arr' = r.arr
    /\ unresolved' = r.unresolved
    /\ recursive' = r.recursive
    /\ thing' = r.thing

\* new CBV(callback, value); id is the number of the put call that made the
\* record (history only: no method reads it)
CBV(callback, value, id) == [cb |-> callback, v |-> value, id |-> id]

\* a scheduled or finished call callback(err, value)
Call(callback, err, value) == [cb |-> callback, err |-> err, v |-> value]

\* sendValue, were it to call back at once (as sendValueS does)
sendValueSync(s, value, callback) ==
    IF callback = NoCb THEN s
    ELSE [s EXCEPT !.log = Append(@, Call(callback, NoErr, value))]

sendValue(s, value, callback) ==
    IF callback = NoCb THEN s
    ELSE [s EXCEPT !.ticks = Append(@, Call(callback, NoErr, value))]

sendError(s, err, callback) ==
    IF callback = NoCb THEN s
    ELSE [s EXCEPT !.ticks = Append(@, Call(callback, err, Null))]

backlog(s) == Len(s.queue) - Len(s.pending)

\* take, were it to send the taker's value before the producer's ack
takeTakerFirst(s, callback) ==
    IF Len(s.queue) > 0
    THEN LET q == Head(s.queue)
             s1 == [s EXCEPT !.queue = Tail(@)]
         IN  sendValue(sendValue(s1, q.v, callback), q.v, q.cb)
    ELSE IF callback # NoCb
         THEN [s EXCEPT !.pending = Append(@, callback)]
         ELSE s

\* take, were it to serve the youngest parked value
takeLifo(s, callback) ==
    IF Len(s.queue) > 0
    THEN LET q == s.queue[Len(s.queue)]
             s1 == [s EXCEPT !.queue = SubSeq(@, 1, Len(@) - 1)]
         IN  sendValue(sendValue(s1, q.v, q.cb), q.v, callback)
    ELSE IF callback # NoCb
         THEN [s EXCEPT !.pending = Append(@, callback)]
         ELSE s

\* Channel.prototype.take
take(s, callback) ==
    IF Len(s.queue) > 0
    THEN LET q == Head(s.queue)
             s1 == [s EXCEPT !.queue = Tail(@)]
         IN  sendValue(sendValue(s1, q.v, q.cb), q.v, callback)
    ELSE IF callback # NoCb
         THEN [s EXCEPT !.pending = Append(@, callback)]
         ELSE s

\* put, were it to park the value whether or not a taker waits
putAlwaysParks(s, value, callback, id) ==
    [s EXCEPT !.queue = Append(@, CBV(callback, value, id))]

\* put, were it to forget the ack when it meets a parked taker
putDropsAck(s, value, callback, id) ==
    IF Len(s.pending) > 0
    THEN LET p == Head(s.pending)
             s1 == [s EXCEPT !.pending = Tail(@)]
         IN  sendValue(s1, value, p)
    ELSE [s EXCEPT !.queue = Append(@, CBV(callback, value, id))]

\* Channel.prototype.put
put(s, value, callback, id) ==
    IF Len(s.pending) > 0
    THEN LET p == Head(s.pending)
             s1 == [s EXCEPT !.pending = Tail(@)]
         IN  sendValue(sendValue(s1, value, callback), value, p)
    ELSE [s EXCEPT !.queue = Append(@, CBV(callback, value, id))]


(* -------------------------------- taps --------------------------------- *)
\* this._taps[c].put(value): a tap channel is a Channel of its own, sharing
\* only nextTick's queue with the base
putOnTap(s, t, value, id) ==
    LET sub == [s EXCEPT !.queue = s.tapCh[t].queue,
                         !.pending = s.tapCh[t].pending]
        r == put(sub, value, NoCb, id)
    IN  [s EXCEPT !.tapCh[t].queue = r.queue, !.tapCh[t].pending = r.pending,
                  !.ticks = r.ticks, !.log = r.log]

\* the loop of the tap put, were it to stop after the first tap
tapForwardFirstOnly(s, i, value, id) ==
    IF i > Len(s.taps) THEN s ELSE putOnTap(s, s.taps[i], value, id)

\* the loop of the tap put over this._taps, from index i on
RECURSIVE tapForward(_, _, _, _)
tapForward(s, i, value, id) ==
    IF i > Len(s.taps) THEN s
    ELSE tapForward(putOnTap(s, s.taps[i], value, id), i + 1, value, id)

\* tapChan.end as tap() overrides it: leave this._taps, then the original end
tapEnd(s, t) ==
    LET at == {i \in 1..Len(s.taps) : s.taps[i] = t}
        s1 == IF s.tapCh[t].ended THEN s
              ELSE IF at = {}
                   \* indexOf gives -1 and splice(-1, 1) removes the last tap
                   THEN [s EXCEPT !.taps = SubSeq(@, 1, Len(@) - 1)]
                   ELSE LET i == CHOOSE j \in at : \A k \in at : j <= k
                        IN  [s EXCEPT !.taps = SubSeq(@, 1, i - 1)
                                                \o SubSeq(@, i + 1, Len(@))]
    IN  [s1 EXCEPT !.tapCh[t].ended = TRUE]

\* while (this._taps.length > 0) this._taps[0].end()
RECURSIVE tapEndAll(_)
tapEndAll(s) ==
    IF Len(s.taps) = 0 THEN s ELSE tapEndAll(tapEnd(s, s.taps[1]))

\* The put slot of the base channel, called through its layers: below is what
\* the layer captured as the put it wraps.
RECURSIVE putVia(_, _, _, _, _)
putVia(layers, s, value, callback, id) ==
    IF layers = <<>> THEN put(s, value, callback, id)
    ELSE LET below == SubSeq(layers, 1, Len(layers) - 1)
         IN  IF layers[Len(layers)] = "filled"
             \* the put fill() installs
             THEN sendError(s, "filled", callback)
             \* the put tap() installs
             ELSE IF ~s.tapsSet
                  THEN [s EXCEPT !.threw = TRUE]
                  ELSE LET s1 == tapForward(s, 1, value, id)
                           s2 == IF value = Null
                                 THEN [tapEndAll(s1) EXCEPT !.tapsSet = FALSE,
                                                           !.putImpl = below]
                                 ELSE s1
                       IN  IF Len(s2.pending) > 0
                           THEN putVia(below, s2, value, callback, id)
                           ELSE s2

\* this.put(value, callback) on the base channel (this._channel.put in a wrapper)
putCur(s, value, callback, id) == putVia(s.putImpl, s, value, callback, id)

\* this.take(callback) on the base channel and on the wrappers that inherit it
takeCur(s, callback) ==
    IF s.filled THEN sendValue(s, s.fillValue, callback) ELSE take(s, callback)

\* Channel.prototype.tap, with a new Channel as the tap (t is its name)
tap(s, t) ==
    LET s1 == IF ~s.tapsSet
              THEN [s EXCEPT !.tapsSet = TRUE, !.taps = <<t>>,
                             !.putImpl = Append(@, "tap")]
              ELSE [s EXCEPT !.taps = Append(@, t)]
    IN  [s1 EXCEPT !.tapCh[t] = [queue |-> <<>>, pending |-> <<>>,
                                  ended |-> FALSE]]

(* -------------------------------- fill --------------------------------- *)
\* while (this.backlog() < 0) origPut.call(this, value)
RECURSIVE fillLoop(_, _, _)
fillLoop(orig, s, value) ==
    IF backlog(s) < 0
    THEN LET s1 == putVia(orig, s, value, NoCb, 0)
         IN  IF s1.threw THEN s1 ELSE fillLoop(orig, s1, value)
    ELSE s

\* fill, were it to leave the parked takers waiting
fillLeavesTakers(s, value) ==
    IF s.filled THEN s
    ELSE IF backlog(s) > 0 THEN [s EXCEPT !.threw = TRUE]
    ELSE [s EXCEPT !.filled = TRUE, !.fillValue = value,
                   !.putImpl = Append(@, "filled")]

\* Channel.prototype.fill (noop once the channel is filled)
fill(s, value) ==
    IF s.filled THEN s
    ELSE IF backlog(s) > 0 THEN [s EXCEPT !.threw = TRUE]
    ELSE fillLoop(s.putImpl,
                  [s EXCEPT !.filled = TRUE, !.fillValue = value,
                            !.putImpl = Append(@, "filled")],
                  value)

(* -------------------------------- until -------------------------------- *)
\* the same record seen from the signal channel: the signal is a Channel of
\* its own, sharing nextTick's queue and the tap channels with the base
swapSignal(s) ==
    [s EXCEPT !.queue = s.sig.queue, !.pending = s.sig.pending,
              !.putImpl = s.sig.putImpl, !.tapsSet = s.sig.tapsSet,
              !.taps = s.sig.taps,
              !.sig = [queue |-> s.queue, pending |-> s.pending,
                       putImpl |-> s.putImpl, tapsSet |-> s.tapsSet,
                       taps |-> s.taps]]

\* Channel.prototype.take on tap channel t
takeOnTap(s, t, callback) ==
    LET sub == [s EXCEPT !.queue = s.tapCh[t].queue,
                         !.pending = s.tapCh[t].pending]
        r == take(sub, callback)
    IN  [s EXCEPT !.tapCh[t].queue = r.queue, !.tapCh[t].pending = r.pending,
                  !.ticks = r.ticks, !.log = r.log]

\* Channel.prototype.until: tapChan (tap 2) taps the signal and has the
\* closure parked on it; ch (tap 1) taps this channel
until(s) ==
    LET s1 == swapSignal(tap(swapSignal(s), 2))
        s2 == takeOnTap(s1, 2, UntilCb)
    IN  tap([s2 EXCEPT !.done = FALSE], 1)

\* the closure parked on tapChan: done = true; tapChan.end(); self.end()
untilSignalled(s) ==
    swapSignal(tapEnd(swapSignal([s EXCEPT !.done = TRUE]), 2))

\* ch.take as until() overrides it
untilTake(s, callback) ==
    IF s.done THEN sendValue(s, Null, callback) ELSE takeOnTap(s, 1, callback)

(* ------------------------------ debounce ------------------------------- *)
\* clearTimeout(handle): the timeout, if still armed, is disarmed
clearTimeout(s, handle) ==
    [s EXCEPT !.timers = SelectSeq(@, LAMBDA tm : tm.id # handle)]

\* debouncingPut, were it to leave the earlier timeout armed
debouncingPutKeepsTimer(s, interval, time, value, callback, id) ==
    [s EXCEPT !.timers = Append(@, [id |-> id, due |-> time + interval,
                                    v |-> value, cb |-> callback]),
              !.timerId = id]

\* debouncingPut at the given time; the handle of the timeout is the number
\* of the put call
debouncingPut(s, interval, time, value, callback, id) ==
    LET s1 == IF s.timerId # 0
              THEN [clearTimeout(s, s.timerId) EXCEPT !.timerId = 0]
              ELSE s
    IN  [s1 EXCEPT !.timers = Append(@, [id |-> id, due |-> time + interval,
                                         v |-> value, cb |-> callback]),
                   !.timerId = id]

\* realPut, as the i-th armed timeout calls it
realPut(s, i) ==
    LET tm == s.timers[i]
        s1 == [s EXCEPT !.timerId = 0,
                        !.timers = SubSeq(@, 1, i - 1)
                                   \o SubSeq(@, i + 1, Len(@))]
    IN  putCur(s1, tm.v, tm.cb, tm.id)

(* -------------------------------- merge -------------------------------- *)
\* new ChannelValue(chan, err, value)
ChannelValue(chan, err, value) == [chan |-> chan, err |-> err, val |-> value]

\* writer, were it to ask for the next value after a null as well
writerKeepsReading(s, c, err, value) ==
    IF value # Null
    THEN putCur(s, ChannelValue(c, err, value), Reader(c), 0)
    ELSE putCur(s, ChannelValue(c, NoErr, Null), Reader(c), 0)

\* writer of source c: the output is the base channel
writer(s, c, err, value) ==
    IF value # Null
    THEN putCur(s, ChannelValue(c, err, value), Reader(c), 0)
    ELSE putCur(s, ChannelValue(c, NoErr, Null), NoCb, 0)

\* reader of source c
reader(s, c) == takeOnTap(s, c, Writer(c))

\* channels.forEach(piper): piper(ch) is reader(null, true)
RECURSIVE merge(_, _)
merge(s, c) ==
    IF c \notin TapIds THEN s ELSE merge(reader(s, c), c + 1)

(* ----------------------- takeN, takeSome, stream ----------------------- *)
\* receive, the function takeN parks as a taker
receive(s, err, value) ==
    IF err # NoErr THEN sendError(s, err, TakeNCb)
    ELSE IF value # Null
         THEN LET s1 == [s EXCEPT !.tnGroup = Append(@, value)]
              IN  IF Len(s1.tnGroup) < s1.tnN
                  THEN takeCur(s1, Receive)
                  ELSE sendValue(s1, s1.tnGroup, TakeNCb)
         ELSE sendValue(s, s.tnGroup, TakeNCb)

\* Channel.prototype.takeN
takeN(s, N) == takeCur([s EXCEPT !.tnGroup = <<>>, !.tnN = N], Receive)

\* Channel.prototype.takeSome
takeSome(s) ==
    IF backlog(s) > 0 THEN takeN(s, backlog(s))
    ELSE sendValue(s, <<>>, TakeNCb)

\* next, the function stream gives to put as the ack
next(s) ==
    IF s.streamI < Len(s.array)
    THEN putCur([s EXCEPT !.streamI = @ + 1], s.array[s.streamI + 1],
                StreamNext, s.streamI + 1)
    ELSE sendValue(s, s.array, StreamCb)

\* Channel.prototype.stream
stream(s, xs) == next([s EXCEPT !.streamI = 0, !.array = xs])

(* ---------------------- group (reduce and filter) ---------------------- *)
\* the reducer group() gives to reduce
grouper(N, g, value) == IF Len(g) = N THEN <<value>> ELSE Append(g, value)

\* the take of the grouped channel: filter's take calls reduce's take, which
\* calls Channel.prototype.take with the two functions below, nested
RECURSIVE groupTake(_, _)

\* the function filter's take hands down; callback is the j-th take's
filterReceive(s, j, err, g) ==
    IF err # NoErr THEN [s EXCEPT !.log = Append(@, Call(Taker(j), err, Null))]
    ELSE IF Len(g) = s.grpN
         THEN [s EXCEPT !.log = Append(@, Call(Taker(j), err, g))]
         ELSE groupTake(s, j)

\* the function reduce's take hands down
reduceReceive(s, j, err, value) ==
    IF err # NoErr THEN filterReceive(s, j, err, Null)
    ELSE LET r == grouper(s.grpN, s.result, value)
         IN  filterReceive([s EXCEPT !.result = r], j, NoErr, r)

groupTake(s, j) == takeCur(s, GroupTaker(j))

\* Channel.prototype.group
group(s, N) ==
    IF N <= 0 THEN [s EXCEPT !.threw = TRUE, !.grpN = N]
    ELSE [s EXCEPT !.result = <<>>, !.grpN = N]

(* ------------------------------- resolve ------------------------------- *)
\* resolveChannel for slot i (callback is the slot's receiver): the state it
\* leaves
resolveChannel(s, c, i) ==
    IF s.recursive THEN takeOnTap(s, c, ChanReceiver(i))
    ELSE takeOnTap(s, c, Receiver(i))

\* resolve(x, recursive, receiver of slot i) for x a channel or a value that
\* is no Channel, Array or Object: the state it leaves and what it returns
resolve(s, x, i) ==
    IF x < 0 THEN [s |-> resolveChannel(s, 0 - x, i), n |-> 1]
    ELSE [s |-> sendValue(s, x, Receiver(i)), n |-> 0]

\* receiver of slot i in resolveArray
receiver(s, i, value) ==
    IF s.recursive THEN resolve(s, value, i).s
    ELSE LET s1 == [s EXCEPT !.arr[i] = value, !.unresolved = @ - 1]
         IN  IF s1.unresolved = 0
             THEN [s1 EXCEPT !.log = Append(@, Call(ResolveCb, NoErr, s1.arr))]
             ELSE s1

\* the loop of resolveArray over arr, from slot i on
RECURSIVE resolveArray(_, _)
resolveArray(s, i) ==
    IF i > Len(s.arr) THEN s
    ELSE LET r == resolve(s, s.arr[i], i)
         IN  resolveArray([r.s EXCEPT !.unresolved = @ + r.n], i + 1)

(* ----------------------- callbacks that are code ----------------------- *)
\* what the call c does when nextTick runs it (a user's callback does
\* nothing to the channel)
run(s, c) ==
    IF c.cb = UntilCb THEN untilSignalled(s)
    ELSE IF c.cb[1] = "writer" THEN writer(s, c.cb[2], c.err, c.v)
    ELSE IF c.cb[1] = "reader" THEN reader(s, c.cb[2])
    ELSE IF c.cb = Receive THEN receive(s, c.err, c.v)
    ELSE IF c.cb = StreamNext THEN next(s)
    ELSE IF c.cb[1] = "group" THEN reduceReceive(s, c.cb[2], c.err, c.v)
    ELSE IF c.cb[1] = "receiver" THEN receiver(s, c.cb[2], c.v)
    \* function receiver(err, value) of resolveChannel
    ELSE IF c.cb[1] = "chanReceiver"
         THEN resolve(s, c.v, Receiver(c.cb[2])).s
    ELSE s

(* ------------------------------ wrappers ------------------------------- *)
\* bufferedPut, were it to ack at once and park the ack as well
bufferedPutAcksTwice(s, N, value, callback, id) ==
    sendValue(putCur(s, value, callback, id), value, callback)

\* bufferedPut (this is ch.buffer(N) or ch.bucket(N, low))
bufferedPut(s, N, value, callback, id) ==
    IF backlog(s) < N
    THEN sendValue(putCur(s, value, NoCb, id), value, callback)
    ELSE putCur(s, value, callback, id)

\* bufferedTake, were it to leave the released record's callback in place
bufferedTakeKeepsCb(s, N, callback) ==
    LET s1 == takeCur(s, callback)
    IN  IF backlog(s1) >= N
        THEN IF N < 1 THEN [s1 EXCEPT !.threw = TRUE]
             ELSE sendValue(s1, s1.queue[N].v, s1.queue[N].cb)
        ELSE s1

\* bufferedTake: this._queue[N - 1] of the code is queue[N] here, and with
\* N = 0 it is undefined, so that reading q._value throws
bufferedTake(s, N, callback) ==
    LET s1 == takeCur(s, callback)
    IN  IF backlog(s1) >= N
        THEN IF N < 1 THEN [s1 EXCEPT !.threw = TRUE]
             ELSE LET q == s1.queue[N]
                  IN  sendValue([s1 EXCEPT !.queue[N].cb = NoCb], q.v, q.cb)
        ELSE s1

\* droppingPut, were it to ack a dropped value with the value
droppingPutAcksValue(s, N, value, callback, id) ==
    IF backlog(s) < N
    THEN sendValue(putCur(s, value, NoCb, id), value, callback)
    ELSE sendValue(s, value, callback)

\* droppingPut
droppingPut(s, N, value, callback, id) ==
    IF backlog(s) < N
    THEN sendValue(putCur(s, value, NoCb, id), value, callback)
    ELSE sendValue(s, Null, callback)

\* the loop of expiringPut: while (this.backlog() >= N) this.take(). A turn
\* that changes nothing is followed by the same turn for ever.
RECURSIVE expireLoop(_, _)
expireLoop(s, N) ==
    IF backlog(s) >= N
    THEN LET s1 == takeCur(s, NoCb)
         IN  IF s1 = s THEN [s EXCEPT !.hung = TRUE] ELSE expireLoop(s1, N)
    ELSE s

\* expiringPut
expiringPut(s, N, value, callback, id) ==
    LET s1 == expireLoop(s, N)
    IN  IF s1.hung THEN s1
        ELSE sendValue(putCur(s1, value, NoCb, id), value, callback)

\* bucketProcSuspendedTakes
RECURSIVE bucketProcSuspendedTakes(_, _, _)
bucketProcSuspendedTakes(s, N, low) ==
    IF Len(s.susp) > 0
    THEN LET s1 == bufferedTake([s EXCEPT !.susp = Tail(@)], N, Head(s.susp))
         IN  IF s1.threw THEN s1 ELSE bucketProcSuspendedTakes(s1, N, low)
    ELSE [s EXCEPT !.wtf = (backlog(s) <= low)]

\* bucketTake
bucketTake(s, N, low, callback) ==
    IF s.wtf /\ backlog(s) <= N
    THEN [s EXCEPT !.susp = Append(@, callback)]
    \* full reached (waitingTillFull is reset and take called again), or
    \* draining
    ELSE bucketProcSuspendedTakes(
             [s EXCEPT !.wtf = FALSE, !.susp = Append(@, callback)], N, low)

\* bucketPut
bucketPut(s, N, low, value, callback, id) ==
    LET s1 == bufferedPut(s, N, value, callback, id)
    IN  IF s1.wtf /\ backlog(s1) <= N THEN s1
        ELSE bucketProcSuspendedTakes(s1, N, low)



(* ======================= the task state machine ======================== *)
VARIABLES
    state,      \* StateMachine.state: the State record
    taskTicks,  \* nextTick's queue: boundStep / boundUnwind scheduled, not run
    thenCbs,    \* the callbacks made by thenTo / thenToWithErr, each with
                \* its done flag
    finalCalls, \* the finalCallback invocations so far: their arguments
    emptied,    \* history: unwind has run with an empty unwind stack
    started,    \* start() was called
    nfn,        \* history: step bodies that called into the runtime
    naborts,    \* abort() calls made so far
    ndups,      \* history: invocations of a callback already invoked
    catches,    \* history: the catch blocks the task is executing in,
                \* innermost last, each with the handler record that caught
                \* and the depth of the unwind stack beneath it
    thrown      \* history: the exceptions retry() has thrown

taskVars == <<state, taskTicks, thenCbs, finalCalls, emptied, started, nfn,
              naborts, ndups, catches, thrown>>

vars == <<chanVars, taskVars>>

\* the step ids of the compiled step function
StepIds == 1..MaxStep

\* an absent unwind record (currentErrorStep = null)
NoRecord == [kind |-> "none", step |-> Null, retryStep |-> Null,
             unwindPoint |-> Null]

\* an unwind record: {cleanup, step, state} ("cleanup"), {cleanup, fn}
\* ("action"), {isError, step, retryStep, unwindPoint} ("error"), {phi}
\* ("phi"), {retry} ("retry"), {restoreState} ("restore")
Record(kind, step, retryStep, unwindPoint) ==
    [kind |-> kind, step |-> step, retryStep |-> retryStep,
     unwindPoint |-> unwindPoint]

\* new State(); strict_unwind is not set by State() and is read as false
State ==
    [id |-> 0, args |-> <<NoErr, NoErr>>, err |-> NoErr,
     unwinding |-> <<>>, waiting |-> 0, isFinished |-> FALSE,
     isUnwinding |-> FALSE, currentErrorStep |-> NoRecord,
     abort_with_error |-> NoErr, strict_unwind |-> FALSE]

\* The state machine and what it has scheduled, as one record.
Task ==
    [state |-> state, ticks |-> taskTicks, cbs |-> thenCbs,
     final |-> finalCalls, emptied |-> emptied, nfn |-> nfn,
     catches |-> catches, thrown |-> thrown]

InstallTask(m) ==
    /\ state' = m.state
    /\ taskTicks' = m.ticks
    /\ thenCbs' = m.cbs
    /\ finalCalls' = m.final
    /\ emptied' = m.emptied
    /\ nfn' = m.nfn
    /\ catches' = m.catches
    /\ thrown' = m.thrown

\* what the body of a step does when the runtime calls fn: one of the calls
\* the task compiler emits, or nothing (the step waits for something that
\* never comes)
Bodies ==
    [op : {"none", "return", "throw", "phi", "retry"},
     id : {Null}, id2 : {Null}]
    \cup [op : {"goTo", "thenTo", "thenToWithErr", "pushCleanupAction"},
          id : StepIds, id2 : {Null}]
    \cup [op : {"pushCleanupStep", "pushErrorStep", "pushPhi"},
          id : StepIds, id2 : StepIds]

\* the body of a step that starts two operations, one with a thenTo and one
\* with a thenToWithErr callback
Fork == [op |-> "thenTos", id |-> 1, id2 |-> Null]

\* the bodies a step may have at this point of the run
BodiesNow == IF nfn < MaxFn THEN Bodies ELSE {b \in Bodies : b.op = "none"}

goTo(m, id) ==
    [m EXCEPT !.state.id = id,
              !.state.strict_unwind = FALSE,
              !.state.waiting = @ + 1,
              !.ticks = Append(@, "step")]

\* thenTo(id) and thenToWithErr(id): the callback made is thenCbs[Len(thenCbs)]
thenTo(m, id, withErr) ==
    [m EXCEPT !.state.waiting = @ + 1,
              !.cbs = Append(@, [id |-> id, done |-> FALSE,
                                 withErr |-> withErr, called |-> FALSE])]

\* callback(err, ...): args is the argument list, err its first element.
\* StateMachine.onerror is not set, and cspjsStack is not modelled.
callback(m, args) ==
    [m EXCEPT !.state.args = args,
              !.state.err = args[1],
              !.state.strict_unwind = TRUE,
              !.ticks = Append(@, "unwind")]

windTo(m, step) == goTo([m EXCEPT !.state.isUnwinding = FALSE], step)

pushCleanupAction(m) ==
    [m EXCEPT !.state.unwinding = Append(@, Record("action", Null, Null, Null))]

pushCleanupStep(m, id, afterID) ==
    goTo([m EXCEPT !.state.unwinding =
                       Append(@, Record("cleanup", id, Null, Null))],
         afterID)

pushErrorStep(m, id, retryID) ==
    goTo([m EXCEPT !.state.unwinding =
                       Append(@, Record("error", id, retryID, Len(@)))],
         retryID)

beginCleanup(m) ==
    [m EXCEPT !.state.unwinding = Append(@, Record("restore", Null, Null, Null))]

pushPhi(m, id) ==
    [m EXCEPT !.state.unwinding = Append(@, Record("phi", id, Null, Null))]

phi(m) == [m EXCEPT !.ticks = Append(@, "unwind")]


\* retry(): with no caught error it throws and changes nothing; else it
\* leaves the innermost catch block the task is in
retry(m) ==
    IF m.state.currentErrorStep = NoRecord
    THEN [m EXCEPT !.thrown = @ + 1]
    ELSE LET errorStep == m.state.currentErrorStep
             u == m.state.unwinding
             at == IF errorStep.unwindPoint < Len(u)
                   THEN errorStep.unwindPoint ELSE Len(u)
             spliced == SubSeq(u, 1, at)
                        \o <<errorStep,
                             Record("retry", errorStep.retryStep, Null, Null)>>
                        \o SubSeq(u, at + 1, Len(u))
         IN  phi([m EXCEPT !.catches = SubSeq(@, 1, Len(@) - 1),
                           !.state.unwinding = spliced,
                           !.state.currentErrorStep = NoRecord,
                           !.state.args = <<NoErr>>,
                           !.state.err = NoErr,
                           !.state.strict_unwind = TRUE])

\* unwindRecord, were a phi record to wind to its join step whatever err and
\* strict_unwind are
unwindRecordAlwaysJoins(m, where) ==
    CASE where.kind = "retry" -> windTo(m, where.step)
      [] where.kind = "phi" -> windTo(m, where.step)
      [] where.kind = "error" ->
            IF m.state.err # NoErr
            THEN goTo([m EXCEPT !.state.currentErrorStep = where,
                                !.catches =
                                    Append(@, [rec |-> where,
                                               depth |->
                                                   Len(m.state.unwinding)])],
                      where.step)
            ELSE [m EXCEPT !.ticks = Append(@, "unwind")]
      [] where.kind = "action" -> [m EXCEPT !.ticks = Append(@, "unwind")]
      [] where.kind = "cleanup" -> goTo(beginCleanup(m), where.step)

\* unwindRecord, were an error handler to catch when there is no error
unwindRecordAlwaysCatches(m, where) ==
    CASE where.kind = "retry" -> windTo(m, where.step)
      [] where.kind = "phi" ->
            IF m.state.err # NoErr \/ m.state.strict_unwind
            THEN [m EXCEPT !.ticks = Append(@, "unwind")]
            ELSE windTo(m, where.step)
      [] where.kind = "error" ->
            goTo([m EXCEPT !.state.currentErrorStep = where,
                           !.catches =
                               Append(@, [rec |-> where,
                                          depth |-> Len(m.state.unwinding)])],
                 where.step)
      [] where.kind = "action" -> [m EXCEPT !.ticks = Append(@, "unwind")]
      [] where.kind = "cleanup" -> goTo(beginCleanup(m), where.step)

\* unwind, for a record where other than restoreState, already popped
unwindRecord(m, where) ==
    CASE where.kind = "retry" -> windTo(m, where.step)
      [] where.kind = "phi" ->
            IF m.state.err # NoErr \/ m.state.strict_unwind
            THEN [m EXCEPT !.ticks = Append(@, "unwind")]
            ELSE windTo(m, where.step)
      [] where.kind = "error" ->
            IF m.state.err # NoErr
            THEN goTo([m EXCEPT !.state.currentErrorStep = where,
                                !.catches =
                                    Append(@, [rec |-> where,
                                               depth |->
                                                   Len(m.state.unwinding)])],
                      where.step)
            ELSE [m EXCEPT !.ticks = Append(@, "unwind")]
      [] where.kind = "action" -> [m EXCEPT !.ticks = Append(@, "unwind")]
      [] where.kind = "cleanup" -> goTo(beginCleanup(m), where.step)

\* unwind, were it to call finalCallback whenever the stack is empty
RECURSIVE unwindFinishesAgain(_)
unwindFinishesAgain(m) ==
    IF Len(m.state.unwinding) > 0
    THEN LET u == m.state.unwinding
             where == u[Len(u)]
             m1 == [m EXCEPT !.state.unwinding = SubSeq(u, 1, Len(u) - 1),
                             !.state.isUnwinding = TRUE,
                             !.catches = SelectSeq(@, LAMBDA c :
                                                       c.depth < Len(u))]
         IN  IF where.kind = "restore" THEN unwindFinishesAgain(m1)
             ELSE unwindRecord(m1, where)
    ELSE [m EXCEPT !.state.waiting = 0,
                   !.state.isFinished = TRUE,
                   !.final = Append(@, m.state.args),
                   !.emptied = TRUE]

RECURSIVE unwind(_)
unwind(m) ==
    IF Len(m.state.unwinding) > 0
    THEN LET u == m.state.unwinding
             where == u[Len(u)]
             m1 == [m EXCEPT !.state.unwinding = SubSeq(u, 1, Len(u) - 1),
                             !.state.isUnwinding = TRUE,
                             !.catches = SelectSeq(@, LAMBDA c :
                                                       c.depth < Len(u))]
         IN  IF where.kind = "restore" THEN unwind(m1)
             ELSE unwindRecord(m1, where)
    ELSE IF ~m.state.isFinished
         THEN [m EXCEPT !.state.waiting = 0,
                        !.state.isFinished = TRUE,
                        !.final = Append(@, m.state.args),
                        !.emptied = TRUE]
         ELSE [m EXCEPT !.emptied = TRUE]

\* the loop of the JumpTable constructor from block i on: every case value
\* of block i is mapped to sum, the step where the block begins, and the
\* block and its phi step are added to sum.  stepIDs[v] = 0 stands for a
\* case value with no entry (undefined), which jumpToCase tests with !stepID
RECURSIVE JumpTableLoop(_, _, _, _, _)
JumpTableLoop(cases, blockSizes, i, stepIDs, sum) ==
    IF i > Len(blockSizes)
    THEN [stepIDs |-> stepIDs, beyondID |-> sum]
    ELSE JumpTableLoop(cases, blockSizes, i + 1,
                       [v \in DOMAIN stepIDs |->
                           IF v \in cases[i] THEN sum ELSE stepIDs[v]],
                       sum + 1 + blockSizes[i])

\* new JumpTable(id, cases, blockSizes)
JumpTable(id, cases, blockSizes) ==
    LET built == JumpTableLoop(cases, blockSizes, 1,
                               [v \in 1..MaxCase |-> 0], id + 1)
    IN  [id |-> id, cases |-> cases, blockSizes |-> blockSizes,
         stepIDs |-> built.stepIDs, beyondID |-> built.beyondID]

\* JumpTable.prototype.jumpToCase(sm, caseVal): the phi record is pushed
\* before the case value is looked up
jumpToCase(m, table, caseVal) ==
    LET m1 == pushPhi(m, table.beyondID)
        stepID == table.stepIDs[caseVal]
    IN  IF stepID = 0
        THEN [m1 EXCEPT !.thrown = @ + 1]
        ELSE goTo(m1, stepID)

\* this.fn called with err as its first argument: the body of the step runs
fn(m, err, body) ==
    LET m1 == [m EXCEPT !.nfn = IF body.op = "none" THEN @ ELSE @ + 1]
    IN  CASE body.op = "none" -> m1
          [] body.op = "goTo" -> goTo(m1, body.id)
          [] body.op = "thenTo" -> thenTo(m1, body.id, FALSE)
          [] body.op = "thenToWithErr" -> thenTo(m1, body.id, TRUE)
          [] body.op = "thenTos" ->
                thenTo(thenTo(m1, body.id, FALSE), body.id, TRUE)
          [] body.op = "pushCleanupAction" ->
                goTo(pushCleanupAction(m1), body.id)
          [] body.op = "pushCleanupStep" ->
                pushCleanupStep(m1, body.id, body.id2)
          [] body.op = "pushErrorStep" -> pushErrorStep(m1, body.id, body.id2)
          [] body.op = "pushPhi" -> goTo(pushPhi(m1, body.id), body.id2)
          [] body.op = "return" -> callback(m1, <<NoErr, "result">>)
          [] body.op = "throw" ->
                callback(m1, <<IF err # NoErr THEN err ELSE "boom">>)
          [] body.op = "phi" -> phi(m1)
          [] body.op = "retry" -> retry(m1)
          [] body.op = "jumpToCase" -> jumpToCase(m1, body.id, body.id2)

performAbort(m, body) ==
    fn([m EXCEPT !.state.abort_with_error = NoErr],
       m.state.abort_with_error, body)

step(m, body) ==
    LET m1 == [m EXCEPT !.state.waiting = @ - 1]
    IN  IF m1.state.abort_with_error # NoErr
        THEN performAbort(m1, body)
        ELSE fn(m1, m1.state.args[1], body)

\* the function thenTo / thenToWithErr returned as thenCbs[i], called with
\* first argument arg
thenToCallback(m, i, arg, body) ==
    LET m1 == [m EXCEPT !.state.waiting = @ - 1,
                        !.cbs[i].called = TRUE]
    IN  IF ~m.cbs[i].done
        THEN LET m2 == [m1 EXCEPT !.cbs[i].done = TRUE,
                                  !.state.id = m.cbs[i].id]
             IN  IF m2.state.abort_with_error # NoErr
                 THEN performAbort(m2, body)
                 ELSE fn(m2, IF m.cbs[i].withErr THEN NoErr ELSE arg, body)
        ELSE m1

\* the control API's abort(err)
abort(m, err) ==
    IF m.state.waiting > 0
    THEN [m EXCEPT !.state.abort_with_error = err]
    ELSE callback(m, <<err>>)

start(m) == goTo(m, 1)

(* ----------------------------- task actions ---------------------------- *)
\* what no call on the task changes
TaskFrame == UNCHANGED chanVars

\* the first arguments a resumption callback is called with
ResumeArgs == {NoErr, "failed"}

\* new StateMachine(...).start()
Start ==
    /\ ~started
    /\ started' = TRUE
    /\ InstallTask(start(Task))
    /\ UNCHANGED <<naborts, ndups>>
    /\ TaskFrame

\* nextTick runs boundStep
StepTick ==
    /\ taskTicks # <<>> /\ Head(taskTicks) = "step"
    /\ \E body \in BodiesNow :
          InstallTask(step([Task EXCEPT !.ticks = Tail(@)], body))
    /\ UNCHANGED <<started, naborts, ndups>>
    /\ TaskFrame

\* the bodies of the steps of a task made of try, catch and finally blocks
\* alone
TryBodies ==
    {b \in Bodies : b.op \in {"pushCleanupStep", "pushErrorStep", "throw",
                              "return", "retry", "phi", "pushPhi"}}

\* nextTick runs boundStep, in a task made of try, catch and finally blocks
TryStep ==
    /\ taskTicks # <<>> /\ Head(taskTicks) = "step"
    /\ nfn < MaxTry
    /\ \E body \in TryBodies :
          InstallTask(step([Task EXCEPT !.ticks = Tail(@)], body))
    /\ UNCHANGED <<started, naborts, ndups>>
    /\ TaskFrame

\* nextTick runs boundStep for the first step of a task, which starts two
\* operations
ForkStep ==
    /\ taskTicks # <<>> /\ Head(taskTicks) = "step"
    /\ nfn = 0 /\ state.abort_with_error = NoErr
    /\ InstallTask(step([Task EXCEPT !.ticks = Tail(@)], Fork))
    /\ UNCHANGED <<started, naborts, ndups>>
    /\ TaskFrame

\* the jump tables of the switch statements of a task: cases[i] holds the
\* case values of block i, blockSizes[i] the number of steps of the block
JumpTables ==
    UNION {{JumpTable(id, cases, blockSizes) :
               id \in StepIds,
               cases \in [1..n -> (SUBSET (1..MaxCase)) \ {{}}],
               blockSizes \in [1..n -> 0..MaxBlockSize]} : n \in 0..MaxBlocks}

\* nextTick runs boundStep for a step that is a switch statement:
\* this.jumpTable(id, cases, blockSizes).jumpToCase(this, caseVal)
JumpStep ==
    /\ taskTicks # <<>> /\ Head(taskTicks) = "step"
    /\ nfn < MaxFn
    /\ \E table \in JumpTables, caseVal \in 1..MaxCase :
          InstallTask(step([Task EXCEPT !.ticks = Tail(@)],
                           [op |-> "jumpToCase", id |-> table,
                            id2 |-> caseVal]))
    /\ UNCHANGED <<started, naborts, ndups>>
    /\ TaskFrame

\* nextTick runs boundUnwind
UnwindTick ==
    /\ taskTicks # <<>> /\ Head(taskTicks) = "unwind"
    /\ InstallTask(unwind([Task EXCEPT !.ticks = Tail(@)]))
    /\ UNCHANGED <<started, naborts, ndups>>
    /\ TaskFrame

\* an operation the task waits for calls the callback it was given, for the
\* first time or again
Resume ==
    /\ \E i \in DOMAIN thenCbs, arg \in ResumeArgs, body \in BodiesNow :
          /\ thenCbs[i].called => ndups < MaxDups
          /\ ndups' = IF thenCbs[i].called THEN ndups + 1 ELSE ndups
          /\ InstallTask(thenToCallback(Task, i, arg, body))
    /\ UNCHANGED <<started, naborts>>
    /\ TaskFrame

\* the task's user calls abort(err) of the control API
Abort ==
    /\ started /\ naborts < MaxAborts
    /\ naborts' = naborts + 1
    /\ InstallTask(abort(Task, "aborted"))
    /\ UNCHANGED <<started, ndups>>
    /\ TaskFrame

\* new StateMachine(context, callback, fn, task_fn)
InitStateMachine ==
    /\ state = State
    /\ taskTicks = <<>> /\ thenCbs = <<>> /\ finalCalls = <<>>
    /\ emptied = FALSE /\ started = FALSE
    /\ nfn = 0 /\ naborts = 0 /\ ndups = 0
    /\ catches = <<>> /\ thrown = 0

TaskNext == Start \/ StepTick \/ UnwindTick \/ Resume \/ Abort

(* --------------------------- channel actions --------------------------- *)
\* the put slot a call on the base channel meets
Slot == IF putImpl = <<>> THEN "put" ELSE putImpl[Len(putImpl)]

\* what no call on the channel changes
Frame ==
    UNCHANGED <<mode, bufLen, lowMark, limit, nsig, ms, now, snap, taskVars>>

\* the history of the k-th put call, made on object via with value v
NotePut(k, v, via, op) ==
    /\ nput' = k
    /\ putLog' = Append(putLog, [v |-> v, via |-> via, slot |-> Slot,
                                 bl |-> backlog(Cur), at |-> now])
    /\ used' = used \cup {op}
    /\ UNCHANGED <<ntake, ntaps, ended, feat>>
    /\ Frame

\* the history of a take call
NoteTake(op) ==
    /\ ntake' = ntake + 1
    /\ used' = used \cup {op}
    /\ UNCHANGED <<nput, putLog, ntaps, ended, feat>>
    /\ Frame

\* ch.put(v, ack) on the base channel
Put ==
    /\ ~hung /\ nput < MaxPuts
    /\ Install(putCur(Cur, nput + 1, Ack(nput + 1), nput + 1))
    /\ NotePut(nput + 1, nput + 1, "base", "put")

\* ch.put(null, ack) on the base channel: the end of the stream
PutNull ==
    /\ ~hung /\ nput < MaxPuts
    /\ \/ feat = "tap"
       \/ Cardinality({k \in 1..nput : putLog[k].v = Null}) < limit.nulls
    /\ Install(putCur(Cur, Null, Ack(nput + 1), nput + 1))
    /\ NotePut(nput + 1, Null, "base", "put")

\* ch.take(cb) on the base channel, or on a wrapper that inherits take
Take ==
    /\ ~hung /\ ntake < limit.takes
    /\ Install(takeCur(Cur, Taker(ntake + 1)))
    /\ NoteTake("take")

\* ch.buffer(N).put(v, ack)
BufferedPut ==
    /\ ~hung /\ nput < MaxPuts /\ mode = "buffer"
    /\ Install(bufferedPut(Cur, bufLen, nput + 1, Ack(nput + 1), nput + 1))
    /\ NotePut(nput + 1, nput + 1, "buffer", "wput")

\* ch.buffer(N).take(cb)
BufferedTake ==
    /\ ~hung /\ ntake < limit.takes /\ mode = "buffer"
    /\ Install(bufferedTake(Cur, bufLen, Taker(ntake + 1)))
    /\ NoteTake("wtake")

\* ch.droppingBuffer(N).put(v, ack)
DroppingPut ==
    /\ ~hung /\ nput < MaxPuts /\ mode = "dropping"
    /\ Install(droppingPut(Cur, bufLen, nput + 1, Ack(nput + 1), nput + 1))
    /\ NotePut(nput + 1, nput + 1, "dropping", "wput")

\* ch.expiringBuffer(N).put(v, ack)
ExpiringPut ==
    /\ ~hung /\ nput < MaxPuts /\ mode = "expiring"
    /\ Install(expiringPut(Cur, bufLen, nput + 1, Ack(nput + 1), nput + 1))
    /\ NotePut(nput + 1, nput + 1, "expiring", "wput")

\* ch.bucket(N, low).put(v, ack)
BucketPut ==
    /\ ~hung /\ nput < MaxPuts /\ mode = "bucket"
    /\ Install(bucketPut(Cur, bufLen, lowMark, nput + 1, Ack(nput + 1),
                         nput + 1))
    /\ NotePut(nput + 1, nput + 1, "bucket", "wput")

\* ch.bucket(N, low).take(cb)
BucketTake ==
    /\ ~hung /\ ntake < limit.takes /\ mode = "bucket"
    /\ Install(bucketTake(Cur, bufLen, lowMark, Taker(ntake + 1)))
    /\ NoteTake("wtake")

\* ch.fill(v) on the base channel
Fill ==
    /\ ~hung /\ feat \in {"none", "fill"}
    /\ Cardinality(used \cap {"fill", "refill"}) < limit.fills
    /\ feat' = "fill"
    /\ \E v \in FillValues : Install(fill(Cur, v))
    /\ used' = used \cup {IF "fill" \in used THEN "refill" ELSE "fill"}
    /\ UNCHANGED <<nput, ntake, putLog, ntaps, ended>>
    /\ Frame

\* ch.tap() on the base channel
Tap ==
    /\ ~hung /\ feat \in {"none", "tap"} /\ ntaps < limit.taps
    /\ feat' = "tap"
    /\ Install(tap(Cur, ntaps + 1))
    /\ ntaps' = ntaps + 1
    /\ used' = used \cup {"tap"}
    /\ UNCHANGED <<nput, ntake, putLog, ended>>
    /\ Frame

\* ch.end() on the base channel: this.end = end, and nothing else
End ==
    /\ ~hung /\ feat \in {"none", "end"}
    /\ feat' = "end"
    /\ Install(Cur)
    /\ ended' = TRUE
    /\ UNCHANGED <<nput, ntake, putLog, ntaps, used>>
    /\ Frame

\* tapChan.end() on a tap of the base channel
TapEnd ==
    /\ ~hung /\ feat = "tap"
    /\ \E t \in 1..ntaps : Install(tapEnd(Cur, t))
    /\ used' = used \cup {"tapEnd"}
    /\ UNCHANGED <<nput, ntake, putLog, ntaps, ended, feat>>
    /\ Frame

\* ch = source.until(signal), the base channel being the source
Until ==
    /\ ~hung /\ feat = "none" /\ nput = 0 /\ ntake = 0
    /\ feat' = "until"
    /\ Install(until(Cur))
    /\ ntaps' = 2
    /\ used' = used \cup {"until"}
    /\ UNCHANGED <<nput, ntake, putLog, ended>>
    /\ Frame

\* ch.take(cb) on the channel until() returned
UntilTake ==
    /\ ~hung /\ feat = "until" /\ ntake < limit.takes
    /\ Install(untilTake(Cur, Taker(ntake + 1)))
    /\ NoteTake("untilTake")

\* signal.put(v) with a value, or with null
SignalPut ==
    /\ ~hung /\ feat = "until" /\ nsig < MaxSignals
    /\ \E v \in {Null, 1} :
          Install(swapSignal(putCur(swapSignal(Cur), v, NoCb, 0)))
    /\ nsig' = nsig + 1
    /\ used' = used \cup {"signal"}
    /\ UNCHANGED <<nput, ntake, putLog, ntaps, ended, feat>>
    /\ UNCHANGED <<mode, bufLen, lowMark, limit, ms, now, snap, taskVars>>

\* ch.debounce(ms).put(v, ack)
DebouncingPut ==
    /\ ~hung /\ nput < MaxPuts /\ ms > 0
    /\ Install(debouncingPut(Cur, ms, now, nput + 1, Ack(nput + 1), nput + 1))
    /\ NotePut(nput + 1, nput + 1, "debounce", "wput")

\* a timeout that is due fires
Timeout ==
    /\ ~hung
    /\ \E i \in DOMAIN timers :
          timers[i].due <= now /\ Install(realPut(Cur, i))
    /\ UNCHANGED <<nput, ntake, putLog, ntaps, ended, feat, used>>
    /\ Frame

\* a millisecond passes
Advance ==
    /\ now < MaxTime
    /\ now' = now + 1
    /\ UNCHANGED <<queue, pending, ticks, log, putImpl, filled, fillValue,
                   tapsSet, taps, tapCh, ntaps, ended, susp, wtf, mode, feat,
                   bufLen, lowMark, hung, threw, nput, ntake, putLog, used,
                   limit, done, sig, nsig, timers, timerId, ms, tnGroup, tnN,
                   array, streamI, snap, result, grpN, arr, unresolved,
                   recursive, thing, taskVars>>

\* Channel.merge([source 1, source 2]): the output is the base channel
Merge ==
    /\ ~hung /\ feat = "none" /\ ntake = 0
    /\ feat' = "merge"
    /\ Install(merge(Cur, 1))
    /\ used' = used \cup {"merge"}
    /\ UNCHANGED <<nput, ntake, putLog, ntaps, ended>>
    /\ Frame

\* source.put(v) or source.put(null) on a source of merge()
SourcePut ==
    /\ ~hung /\ nput < MaxPuts /\ feat \in {"none", "merge", "resolve"}
    /\ \E c \in TapIds :
       \E v \in {Null, nput + 1}
                \cup {Chan(d) : d \in {e \in TapIds : recursive /\ e > c}} :
          /\ Install(putOnTap(Cur, c, v, nput + 1))
          /\ NotePut(nput + 1, v, <<"source", c>>, "sput")

\* ch.takeN(N, cb), once in a run
TakeN ==
    /\ ~hung /\ "takeN" \notin used
    /\ \E N \in 0..MaxPuts : Install(takeN(Cur, N))
    /\ used' = used \cup {"takeN"}
    /\ UNCHANGED <<nput, ntake, putLog, ntaps, ended, feat>>
    /\ Frame

\* ch.takeSome(cb), once in a run
TakeSome ==
    /\ ~hung /\ "takeSome" \notin used
    /\ Install(takeSome(Cur))
    /\ used' = used \cup {"takeSome"}
    /\ snap' = [i \in 1..Len(queue) |-> queue[i].v]
    /\ UNCHANGED <<nput, ntake, putLog, ntaps, ended, feat>>
    /\ UNCHANGED <<mode, bufLen, lowMark, limit, nsig, ms, now, taskVars>>

\* ch.stream(xs, ack), once in a run
Stream ==
    /\ ~hung /\ "stream" \notin used
    /\ \E xs \in Arrays : Install(stream(Cur, xs))
    /\ used' = used \cup {"stream"}
    /\ UNCHANGED <<nput, ntake, putLog, ntaps, ended, feat>>
    /\ Frame

\* ch.takeN(xs.length, cb) after ch.stream(xs, ack)
StreamTakeN ==
    /\ ~hung /\ "stream" \in used /\ "takeN" \notin used
    /\ Install(takeN(Cur, Len(array)))
    /\ used' = used \cup {"takeN"}
    /\ UNCHANGED <<nput, ntake, putLog, ntaps, ended, feat>>
    /\ Frame

\* g = ch.group(N), once in a run unless it throws
Group ==
    /\ ~hung /\ feat = "none" /\ ntake = 0 /\ "group" \notin used
    /\ \E N \in 0..MaxGroup :
          /\ Install(group(Cur, N))
          /\ feat' = IF N <= 0 THEN feat ELSE "group"
    /\ used' = used \cup {"group"}
    /\ UNCHANGED <<nput, ntake, putLog, ntaps, ended>>
    /\ Frame

\* g.take(cb) on the grouped channel
GroupTake ==
    /\ ~hung /\ feat = "group" /\ ntake < limit.takes
    /\ Install(groupTake(Cur, ntake + 1))
    /\ NoteTake("gtake")

\* Channel.resolve(xs, recursive, cb) for an array of channels and values
Resolve ==
    /\ ~hung /\ feat = "none"
    /\ feat' = "resolve"
    /\ \E xs \in Things, rec \in BOOLEAN :
          Install(resolveArray([Cur EXCEPT !.arr = xs, !.thing = xs,
                                           !.unresolved = 0,
                                           !.recursive = rec], 1))
    /\ used' = used \cup {"resolve"}
    /\ UNCHANGED <<nput, ntake, putLog, ntaps, ended>>
    /\ Frame

\* nextTick runs the oldest scheduled call
Tick ==
    /\ ~hung /\ Len(ticks) > 0
    /\ Install(run([Cur EXCEPT !.ticks = Tail(@),
                                !.log = Append(@, Head(ticks))],
                    Head(ticks)))
    \* self.end() in until's closure
    /\ ended' = (ended \/ Head(ticks).cb = UntilCb)
    /\ UNCHANGED <<ntaps, nput, ntake, putLog, used, feat>>
    /\ Frame

\* new Channel(), and the wrapper derived from it
InitChannel ==
    /\ queue = <<>> /\ pending = <<>> /\ ticks = <<>> /\ log = <<>>
    /\ putImpl = <<>> /\ filled = FALSE /\ fillValue = Null
    /\ tapsSet = FALSE /\ taps = <<>>
    /\ tapCh = [t \in TapIds |->
                   [queue |-> <<>>, pending |-> <<>>, ended |-> FALSE]]
    /\ ntaps = 0 /\ ended = FALSE
    /\ susp = <<>> /\ wtf = TRUE
    /\ mode \in Modes
    /\ feat = "none"
    /\ bufLen \in (IF mode = "base" THEN {0} ELSE 0..MaxN)
    /\ lowMark \in (IF mode = "bucket" THEN 0..MaxLow ELSE {0})
    /\ hung = FALSE /\ threw = FALSE
    /\ nput = 0 /\ ntake = 0 /\ putLog = <<>> /\ used = {}
    /\ done = FALSE /\ nsig = 0
    /\ timers = <<>> /\ timerId = 0 /\ now = 0
    /\ tnGroup = <<>> /\ tnN = 0 /\ array = <<>> /\ streamI = 0
    /\ snap = <<>> /\ result = <<>> /\ grpN = 0
    /\ arr = <<>> /\ unresolved = 0 /\ recursive = FALSE /\ thing = <<>>
    /\ sig = [queue |-> <<>>, pending |-> <<>>, putImpl |-> <<>>,
              tapsSet |-> FALSE, taps |-> <<>>]

\* the calls a run makes at most
Limit(nTakes, nTaps, nNulls, nFills) ==
    [takes |-> nTakes, taps |-> nTaps, nulls |-> nNulls, fills |-> nFills]

Init == InitChannel /\ limit = Limit(MaxTakes, 1, 0, 1) /\ ms = 0
    /\ InitStateMachine

\* a task alone: the channel stays as made
TaskInit ==
    InitChannel /\ mode = "base" /\ limit = Limit(MaxTakes, 1, 0, 1)
    /\ ms = 0 /\ InitStateMachine

\* a bucket used through the wrapper alone, with one more taker than a full
\* bucket(1, low) holds values
BucketInit ==
    InitChannel /\ mode = "bucket" /\ limit = Limit(MaxTakes + 1, 1, 0, 1)
    /\ ms = 0 /\ InitStateMachine

Next ==
    \/ Put \/ PutNull \/ Take
    \/ BufferedPut \/ BufferedTake
    \/ DroppingPut
    \/ ExpiringPut
    \/ BucketPut \/ BucketTake
    \/ Fill \/ Tap \/ End
    \/ Tick

Spec == Init /\ [][Next]_vars

TaskSpec == TaskInit /\ [][TaskNext]_vars

\* a task made of try, catch and finally blocks, run to its end without
\* resumption callbacks or abort()
RetryNext == Start \/ TryStep \/ UnwindTick

RetrySpec == TaskInit /\ [][RetryNext]_vars

\* a task whose first step starts two operations
ForkNext == Start \/ ForkStep \/ StepTick \/ UnwindTick \/ Resume \/ Abort

ForkSpec == TaskInit /\ [][ForkNext]_vars

\* a task with switch statements
JumpNext == Start \/ JumpStep \/ StepTick \/ UnwindTick

JumpSpec == TaskInit /\ [][JumpNext]_vars

\* a base channel that is filled
FillInit ==
    InitChannel /\ mode = "base" /\ limit = Limit(MaxTakes, 1, 0, 2)
    /\ ms = 0 /\ InitStateMachine

FillNext == Put \/ Take \/ Fill \/ Tick

FillSpec == FillInit /\ [][FillNext]_vars

\* a base channel with up to two taps
TapInit ==
    InitChannel /\ mode = "base"
    /\ limit = Limit(MaxTakes, Cardinality(TapIds), 0, 1)
    /\ ms = 0 /\ InitStateMachine

TapNext == Put \/ PutNull \/ Take \/ Tap \/ TapEnd \/ Tick

TapSpec == TapInit /\ [][TapNext]_vars

\* a new base channel, for the runs that use one of its methods alone
BaseInit ==
    InitChannel /\ mode = "base" /\ limit = Limit(MaxTakes, 1, 0, 1)
    /\ ms = 0 /\ InitStateMachine

UntilNext == Until \/ Put \/ UntilTake \/ SignalPut \/ Tick

\* a source channel used through until() alone
UntilSpec == BaseInit /\ [][UntilNext]_vars

\* a channel used through debounce(ms): puts on the wrapper, takes inherited
DebounceInit ==
    InitChannel /\ mode = "base" /\ limit = Limit(MaxTakes, 1, 0, 1)
    /\ ms \in 1..MaxMs /\ InitStateMachine

DebounceNext == DebouncingPut \/ Timeout \/ Advance \/ Take \/ Tick

DebounceSpec == DebounceInit /\ [][DebounceNext]_vars

\* two sources and the output of their merge
MergeInit ==
    InitChannel /\ mode = "base" /\ limit = Limit(MaxTakes + 1, 1, 0, 1)
    /\ ms = 0 /\ InitStateMachine

MergeNext == Merge \/ SourcePut \/ Take \/ Tick

MergeSpec == MergeInit /\ [][MergeNext]_vars

\* a base channel with one takeN call among puts of values and of null
TakeNInit ==
    InitChannel /\ mode = "base" /\ limit = Limit(MaxTakes, 1, 1, 1)
    /\ ms = 0 /\ InitStateMachine

TakeNNext == Put \/ PutNull \/ TakeN \/ Tick

TakeNSpec == TakeNInit /\ [][TakeNNext]_vars

\* a base channel with one takeSome call among puts and takes
TakeSomeNext == Put \/ Take \/ TakeSome \/ Tick

TakeSomeSpec == BaseInit /\ [][TakeSomeNext]_vars

\* a base channel with stream(xs, ack) and then takeN(xs.length, cb)
StreamSpecNext == Stream \/ StreamTakeN \/ Tick

StreamSpec == BaseInit /\ [][StreamSpecNext]_vars

\* a base channel with puts on it and takes on its group(N)
GroupNext == Group \/ Put \/ GroupTake \/ Tick

GroupSpec == BaseInit /\ [][GroupNext]_vars

\* two channels and an array resolved over them; the run ends after MaxLog
\* callbacks
ResolveNext == Resolve \/ SourcePut \/ (Len(log) < MaxLog /\ Tick)

ResolveSpec == BaseInit /\ [][ResolveNext]_vars

BucketNext == BucketPut \/ BucketTake \/ Tick

BucketSpec == BucketInit /\ [][BucketNext]_vars


(* ---------------------- vocabulary of the claims ----------------------- *)
\* every call scheduled so far, in the order nextTick runs them: those that
\* have run, then those still waiting
AllCalls == log \o ticks

\* the places of callback cb in AllCalls
CallsOf(cb) == {i \in DOMAIN AllCalls : AllCalls[i].cb = cb}

\* how many times callback cb was scheduled
Count(cb) == Cardinality(CallsOf(cb))

\* the call of a callback scheduled once
TheCall(cb) == AllCalls[CHOOSE i \in CallsOf(cb) : TRUE]

\* the value of the k-th put call is still parked in _queue
InQueue(k) == \E i \in DOMAIN queue : queue[i].id = k

\* some taker was handed the (data) value of the k-th put call
Delivered(k) ==
    \E i \in DOMAIN AllCalls :
        AllCalls[i].cb[1] = "take" /\ AllCalls[i].v = putLog[k].v

\* the acks scheduled so far, as put numbers, in scheduling order
RECURSIVE AcksIn(_)
AcksIn(calls) ==
    IF calls = <<>> THEN <<>>
    ELSE IF Head(calls).cb[1] = "ack"
         THEN <<Head(calls).cb[2]>> \o AcksIn(Tail(calls))
         ELSE AcksIn(Tail(calls))

Increasing(s) == \A i, j \in DOMAIN s : i < j => s[i] < s[j]

\* the run used nothing but data puts and takes (and end(), which changes
\* no queue)
Plain == feat \in {"none", "end"}

(* -------------------------------- C1 ----------------------------------- *)
\* C1: at every point between calls, whatever puts, takes, fills and taps
\* were made on the base channel and on the wrappers sharing its queues, at
\* least one of _queue (parked values) and _pending (parked takers) is empty.
C1_QueueOrPendingEmpty == Len(queue) = 0 \/ Len(pending) = 0

\* takers are parked after values were parked and served, with wrapper and
\* base calls mixed and a fill or a tap made
C1_Witness ==
    /\ Len(pending) > 0
    /\ {"put", "wput", "wtake"} \subseteq used
    /\ feat \in {"fill", "tap"}
    /\ \E i \in DOMAIN log : log[i].cb[1] = "take"


(* -------------------------------- C2 ----------------------------------- *)
\* the unwind stack is empty, or holds nothing but restoreState records
\* (which unwind pops on its way down)
StackEmpties ==
    \A i \in DOMAIN state.unwinding : state.unwinding[i].kind = "restore"

\* C2: the final callback of a started task is invoked once and never a
\* second time, whatever the step bodies, abort() calls (before or after the
\* task finished) and late or duplicate resumption callbacks do: it has been
\* invoked exactly if unwind has run with an empty unwind stack, which marks
\* the task finished, and the step that invokes it is an unwind that finds
\* the stack empty and passes it state.args.
C2_FinalCallbackOnce ==
    /\ [](/\ Len(finalCalls) = (IF emptied THEN 1 ELSE 0)
          /\ state.isFinished <=> emptied)
    /\ [][finalCalls' # finalCalls =>
              /\ taskTicks # <<>> /\ Head(taskTicks) = "unwind"
              /\ StackEmpties
              /\ finalCalls' = <<state.args>>]_vars

\* the task finished with a result after a resumption; then its callback was
\* called again, abort() was called, and the unwind abort() scheduled has run
C2_Witness ==
    /\ finalCalls = <<<<NoErr, "result">>>>
    /\ naborts = 1 /\ ndups = 1
    /\ state.args = <<"aborted">>
    /\ taskTicks = <<>>

(* -------------------------------- C3 ----------------------------------- *)
\* the puts C3 speaks of: made on the base channel (filled or not) or on a
\* buffer, a droppingBuffer or an expiringBuffer, in a run without taps
C3_Puts == {k \in 1..nput : putLog[k].via # "bucket"}

\* the value of put k is no longer in the channel's hands: it was consumed,
\* dropped, expired or rejected (a put that never returns has handed over
\* nothing)
Settled(k) == ~InQueue(k) /\ ~(hung /\ k = nput)

\* put k was made on an expiringBuffer and its value was discarded by a later
\* expiring put
Expired(k) ==
    /\ putLog[k].via = "expiring" /\ putLog[k].slot = "put"
    /\ Settled(k) /\ ~Delivered(k)

\* put k handed its ack to the put that fill() installs: it was made on the
\* filled channel, or on a buffer of it that was at capacity
Rejected(k) ==
    /\ putLog[k].slot = "filled"
    /\ putLog[k].via = "base"
       \/ (putLog[k].via = "buffer" /\ putLog[k].bl >= bufLen)

\* put k was made on a droppingBuffer at capacity
Dropped(k) == putLog[k].via = "dropping" /\ putLog[k].bl >= bufLen

\* the arguments the code gives the ack of put k
C3_Args(k) ==
    IF Rejected(k) THEN <<"filled", Null>>
    ELSE IF Dropped(k) THEN <<NoErr, Null>>
    ELSE <<NoErr, putLog[k].v>>

\* the arguments C3 gives the ack of put k: (null, null) on expiring too
C3_ArgsClaimed(k) ==
    IF Expired(k) THEN <<NoErr, Null>> ELSE C3_Args(k)

BaseOnly == mode = "base" /\ Plain

C5_Fifo ==
    BaseOnly =>
        /\ \A i \in DOMAIN AllCalls :
              AllCalls[i].cb[1] = "take" =>
                  /\ AllCalls[i].cb[2] <= nput
                  /\ AllCalls[i].v = putLog[AllCalls[i].cb[2]].v
                  /\ AllCalls[i].err = NoErr
        /\ Increasing(AcksIn(AllCalls))
        /\ \A i \in DOMAIN queue : queue[i].id = nput - Len(queue) + i

\* two takers have got their values and two acks have run, one value having
\* met a parked taker and one taker a parked value
C5_Witness ==
    /\ BaseOnly
    /\ \E i, j \in DOMAIN log :
          /\ i < j
          /\ log[i].cb = Taker(1) /\ log[j].cb = Taker(2)
    /\ Len(AcksIn(log)) >= 2
    /\ nput = 3
    /\ putLog[1].bl < 0 /\ putLog[2].bl = 0 /\ putLog[3].bl > 0

(* -------------------------------- C6 ----------------------------------- *)
\* C6: no callback runs inside the put, take or fill call (on the base
\* channel or a wrapper) that triggers it: a step in which a callback runs is
\* a tick of nextTick, which runs the oldest scheduled call and calls no
\* method of the channel.
C6_CallbacksDeferred ==
    [][log' # log =>
          /\ Len(ticks) > 0
          /\ log' = Append(log, Head(ticks))
          /\ ticks' = Tail(ticks)
          /\ UNCHANGED <<queue, pending, nput, ntake, used, feat>>]_vars

\* acks and taker callbacks triggered by wrapper puts, base puts, takes and a
\* fill have run
C6_Witness ==
    /\ {"put", "wput", "take"} \subseteq used /\ feat = "fill"
    /\ \E i \in DOMAIN log : log[i].cb[1] = "ack"
    /\ \E i \in DOMAIN log : log[i].cb[1] = "take" /\ log[i].v = fillValue
    /\ \E i \in DOMAIN log : log[i].err = "filled"

(* -------------------------------- C7 ----------------------------------- *)
\* C7 as claimed: for every value handed from a producer to a taker on a base
\* channel, the producer's ack does not run before the taker's callback has
\* received the value.
C7_AckAfterTaker ==
    BaseOnly =>
        \A i \in DOMAIN log :
            log[i].cb[1] = "ack" =>
                \E j \in 1..(i - 1) :
                    log[j].cb[1] = "take" /\ log[j].v = log[i].v

\* C7, amended: for every value handed from a producer to a taker on a base
\* channel, the producer's ack and the taker's callback are scheduled by the
\* call that consumes the value (so both run after it), the ack first and the
\* taker's callback right behind it: the ack runs just before the taker's
\* callback receives the value, not after.
C7_AckJustBeforeTaker ==
    BaseOnly =>
        \A i \in DOMAIN AllCalls :
            AllCalls[i].cb[1] = "ack" =>
                /\ ~InQueue(AllCalls[i].cb[2])
                /\ i + 1 \in DOMAIN AllCalls
                /\ AllCalls[i + 1] =
                       Call(Taker(AllCalls[i].cb[2]), NoErr, AllCalls[i].v)

\* an ack has run and the taker's callback for the same value is still to
\* run, both for a put that met a parked taker and a take that met a value
C7_Witness ==
    /\ BaseOnly
    /\ nput = 2 /\ ntake = 2
    /\ putLog[1].bl < 0 /\ putLog[2].bl = 0
    /\ Len(log) = 3 /\ log[3].cb = Ack(2)
    /\ ticks = <<Call(Taker(2), NoErr, 2)>>


(* -------------------------------- C8 ----------------------------------- *)
\* the run used a buffer(N), N >= 1, through the wrapper alone
BufferOnly ==
    /\ mode = "buffer" /\ bufLen >= 1
    /\ used \subseteq {"wput", "wtake"} /\ feat = "none"

\* C8: for buffer(N), N >= 1, used through the wrapper alone: a put made
\* while backlog < N is acked at once (deferred) with its value; a put made
\* while backlog >= N is parked with its ack and stays un-acked exactly as
\* long as its value sits behind the first N values of _queue, so that each
\* take that leaves backlog >= N releases the oldest un-acked producer; the
\* acks are scheduled in put order and none twice.
C8_BufferAcks ==
    BufferOnly =>
        /\ \A i \in DOMAIN queue :
              queue[i].cb = (IF i <= bufLen THEN NoCb ELSE Ack(queue[i].id))
        /\ \A k \in 1..nput :
              /\ putLog[k].bl < bufLen => Count(Ack(k)) = 1
              /\ Count(Ack(k)) =
                    (IF \E i \in DOMAIN queue : queue[i].id = k /\ i > bufLen
                     THEN 0 ELSE 1)
              /\ Count(Ack(k)) = 1 => TheCall(Ack(k)) = Call(Ack(k), NoErr, k)
        /\ Increasing(AcksIn(AllCalls))

\* buffer(1) after three puts and a take: the first was acked at once, the
\* second was parked and its ack was released by the take, the third is
\* still parked un-acked
C8_Witness ==
    /\ BufferOnly
    /\ nput = 3 /\ ntake = 1
    /\ putLog[1].bl < bufLen /\ putLog[2].bl >= bufLen
    /\ AcksIn(log) = <<1, 2>>
    /\ Len(queue) = 2 /\ queue[2].cb = Ack(3)

(* -------------------------------- C9 ----------------------------------- *)
\* the run wrote through a droppingBuffer(N) alone, and took with take
DroppingOnly == mode = "dropping" /\ "put" \notin used /\ Plain

\* the puts a droppingBuffer(N) accepted, in put order
Accepted ==
    LET kept(k) == putLog[k].bl < bufLen
    IN  SelectSeq([k \in 1..nput |-> k], kept)

\* C9: for droppingBuffer(N) written through the wrapper alone: a put made
\* while backlog < N passes its value on (to _queue or to a parked taker) and
\* is acked with (null, v); a put made while backlog >= N leaves _queue as it
\* is and is acked with (null, null); no producer is parked, backlog never
\* exceeds N, and the takes get exactly the values not dropped, in put order.
C9_DroppingBuffer ==
    DroppingOnly =>
        /\ \A k \in 1..nput :
              /\ Count(Ack(k)) = 1
              /\ TheCall(Ack(k)) =
                    Call(Ack(k), NoErr,
                         IF putLog[k].bl < bufLen THEN k ELSE Null)
        /\ \A i \in DOMAIN queue : queue[i].cb = NoCb
        /\ backlog(Cur) <= bufLen
        /\ \A j \in 1..ntake :
              /\ Count(Taker(j)) = (IF j <= Len(Accepted) THEN 1 ELSE 0)
              /\ j <= Len(Accepted) =>
                    TheCall(Taker(j)) = Call(Taker(j), NoErr, Accepted[j])
        /\ Len(queue) = (IF Len(Accepted) > ntake
                         THEN Len(Accepted) - ntake ELSE 0)
        /\ \A i \in DOMAIN queue : queue[i].id = Accepted[ntake + i]

\* droppingBuffer(1): the first put is kept, the second dropped and acked
\* with null, a take frees the buffer, the third is kept, and a second take
\* gets the third value
C9_Witness ==
    /\ DroppingOnly /\ bufLen = 1
    /\ Accepted = <<1, 3>>
    /\ \E i \in DOMAIN log : log[i] = Call(Ack(2), NoErr, Null)
    /\ \E i \in DOMAIN log : log[i] = Call(Taker(2), NoErr, 3)

(* -------------------------------- C10 ---------------------------------- *)
\* the run wrote through an expiringBuffer(N) alone, and took with take
ExpiringOnly == mode = "expiring" /\ "put" \notin used /\ Plain

\* C10: for expiringBuffer(N), every N >= 0, written through the wrapper
\* alone: every put returns (its discard loop ends), after every put backlog
\* is at most N and _queue holds the most recent values in put order, and no
\* producer is parked.
C10_ExpiringPutReturns ==
    ExpiringOnly =>
        /\ ~hung
        /\ backlog(Cur) <= bufLen
        /\ \A i \in DOMAIN queue :
              /\ queue[i].id = nput - Len(queue) + i
              /\ queue[i].cb = NoCb


(* -------------------------------- C11 ---------------------------------- *)
\* the takers that were handed a value so far
TakersServed ==
    Cardinality({i \in DOMAIN AllCalls : AllCalls[i].cb[1] = "take"})

\* C11: for a bucket(full, low) with full >= 1 used through the wrapper
\* alone, a step in which a taker is handed a value starts in the draining
\* phase or passes backlog > full (counting the value the step puts); takers
\* are served only while backlog > low, so serving never leaves backlog < low
\* and never parks a taker in _pending; and after a step that serves takers
\* the bucket is waitingTillFull exactly if backlog <= low.
C11_BucketPhases ==
    [][(bufLen >= 1 /\ TakersServed' > TakersServed) =>
          /\ ~wtf \/ backlog(Cur) + (nput' - nput) > bufLen
          /\ Len(queue') - Len(pending') >= lowMark
          /\ Len(pending') = 0
          /\ wtf' <=> (Len(queue') - Len(pending') <= lowMark)]_vars


(* -------------------------------- C12 ---------------------------------- *)
\* the step is a call of fill (the first of the run, or the second)
FillCall == used' # used /\ (used' \ used) \subseteq {"fill", "refill"}

\* C12: on a base channel, fill(v) with backlog <= 0 empties _pending and
\* schedules (null, v) once for every taker parked there, in order, leaving
\* _queue alone; fill with backlog > 0 throws and changes nothing; fill on a
\* filled channel changes nothing; once the channel is filled, a take
\* schedules (null, v) for its callback and a put schedules ("filled", null)
\* for its ack, neither touching _queue or _pending, and every take made so
\* far has got exactly one call.
C12_Fill ==
    /\ [][/\ (FillCall /\ ~filled /\ backlog(Cur) <= 0) =>
                /\ filled' /\ ~threw'
                /\ pending' = <<>> /\ queue' = queue /\ log' = log
                /\ ticks' = ticks \o [i \in 1..Len(pending) |->
                                         Call(pending[i], NoErr, fillValue')]
          /\ (FillCall /\ ~filled /\ backlog(Cur) > 0) =>
                /\ threw'
                /\ UNCHANGED <<queue, pending, ticks, log, filled, putImpl>>
          /\ (FillCall /\ filled) =>
                /\ ~threw'
                /\ UNCHANGED <<queue, pending, ticks, log, filled, putImpl,
                               fillValue>>
          /\ (filled /\ ntake' # ntake) =>
                /\ UNCHANGED <<queue, pending>>
                /\ ticks' = Append(ticks, Call(Taker(ntake'), NoErr, fillValue))
          /\ (filled /\ nput' # nput) =>
                /\ UNCHANGED <<queue, pending>>
                /\ ticks' = Append(ticks, Call(Ack(nput'), "filled", Null))
          /\ filled => (filled' /\ fillValue' = fillValue)]_vars
    /\ [](filled => \A j \in 1..ntake : Count(Taker(j)) = 1)

\* a channel filled with two takers parked, filled again, and then put to:
\* both takers have got the fill value and the put's ack has got "filled"
C12_Witness ==
    /\ filled /\ "refill" \in used
    /\ ntake = 2 /\ putLog # <<>> /\ putLog[1].slot = "filled"
    /\ \E i, j \in DOMAIN log :
          /\ i < j
          /\ log[i] = Call(Taker(1), NoErr, fillValue)
          /\ log[j] = Call(Taker(2), NoErr, fillValue)
    /\ \E i \in DOMAIN log : log[i] = Call(Ack(1), "filled", Null)

(* C13: on a channel with taps every put(v) hands v to every attached tap
   and to no other tap; the base takes v only when a taker is parked (its
   own queue stays as it was, and without a taker nothing is scheduled);
   put(null) ends and detaches every tap and restores the original put, after
   which a put without a parked taker is queued on the base; a tap whose
   end() was called is detached, hence receives nothing more. *)
Attached == {taps[i] : i \in 1..Len(taps)}

C13_Taps ==
    /\ [][nput' = nput + 1 =>
            LET v == putLog'[nput'].v
                k == nput'
            IN  /\ Slot = "tap" =>
                     /\ \A t \in TapIds :
                            tapCh'[t].queue =
                                IF t \in Attached
                                THEN Append(tapCh[t].queue, CBV(NoCb, v, k))
                                ELSE tapCh[t].queue
                     /\ queue' = queue
                     /\ IF Len(pending) > 0
                        THEN /\ pending' = Tail(pending)
                             /\ ticks' = ticks \o
                                    <<Call(Ack(k), NoErr, v),
                                      Call(pending[1], NoErr, v)>>
                        ELSE pending' = pending /\ ticks' = ticks
                     /\ IF v = Null
                        THEN /\ taps' = <<>> /\ ~tapsSet' /\ putImpl' = <<>>
                             /\ \A t \in Attached : tapCh'[t].ended
                        ELSE /\ UNCHANGED <<taps, tapsSet, putImpl>>
                             /\ \A t \in TapIds :
                                    tapCh'[t].ended = tapCh[t].ended
                /\ (Slot = "put" /\ ntaps > 0) =>
                     /\ tapCh' = tapCh
                     /\ Len(pending) = 0 =>
                            queue' = Append(queue, CBV(Ack(k), v, k))]_vars
    /\ [](\A t \in TapIds : tapCh[t].ended => t \notin Attached)

C13_Witness ==
    /\ ntaps = 2 /\ "tapEnd" \in used /\ nput = 3
    /\ putLog[1].slot = "tap" /\ putLog[1].bl < 0
    /\ putLog[2].slot = "tap" /\ putLog[2].v = Null
    /\ putLog[3].slot = "put"
    /\ Count(Taker(1)) = 1 /\ TheCall(Taker(1)).v = 1
    /\ tapCh[1].ended /\ tapCh[1].queue = <<CBV(NoCb, 1, 1)>>
    /\ tapCh[2].ended
    /\ tapCh[2].queue = <<CBV(NoCb, 1, 1), CBV(NoCb, Null, 2)>>
    /\ queue = <<CBV(Ack(3), 3, 3)>>
    /\ putImpl = <<>> /\ taps = <<>>

(* C14: for ch = source.until(signal), the j-th take on ch yields the j-th
   value put on the source or null; a take made once the signal has been
   observed (done) yields null; and no value put on the source once the
   signal has been observed is handed to a taker of ch. *)
C14_InPutOrder ==
    \A i \in DOMAIN AllCalls :
        AllCalls[i].cb[1] = "take" =>
            AllCalls[i].v \in {Null, AllCalls[i].cb[2]}

C14_NullAfterSignal ==
    [][(done /\ ntake' = ntake + 1) =>
          /\ ticks' = Append(ticks, Call(Taker(ntake'), NoErr, Null))
          /\ tapCh' = tapCh]_vars

C14_NothingAfterSignal ==
    [][(done /\ nput' = nput + 1) =>
          \A i \in DOMAIN ticks' :
              i > Len(ticks) => ticks'[i].cb[1] # "take"]_vars

C14_Until ==
    /\ []C14_InPutOrder
    /\ C14_NullAfterSignal
    /\ C14_NothingAfterSignal

(* C15: on ch.debounce(ms), a value reaches the underlying channel only once
   ms have passed since its put, and never when the next put came less than
   ms after it; the value of the last put either has reached the underlying
   channel or still has its timeout armed, and no other timeout is armed. *)
Reached(k) == InQueue(k) \/ Count(Ack(k)) > 0

C15_Debounce ==
    /\ \A k \in 1..nput :
          Reached(k) =>
              /\ now >= putLog[k].at + ms
              /\ k < nput => putLog[k + 1].at - putLog[k].at >= ms
              /\ Count(Ack(k)) <= 1
    /\ nput > 0 =>
          IF Reached(nput) THEN timers = <<>>
          ELSE /\ Len(timers) = 1 /\ timers[1].id = nput
               /\ timers[1].v = putLog[nput].v
               /\ timers[1].due = putLog[nput].at + ms

C15_Witness ==
    /\ nput = 3
    /\ putLog[2].at - putLog[1].at < ms
    /\ putLog[3].at - putLog[2].at >= ms
    /\ ~Reached(1) /\ Reached(2) /\ Reached(3)
    /\ Len(queue) = 1 /\ queue[1].v = 3
    /\ Count(Taker(1)) = 1 /\ TheCall(Taker(1)).v = 2

(* C16: in the output of merge the envelopes of each source carry the
   source's values in put order, none skipped, up to and including its first
   null (one terminal envelope, nothing after it); at most one envelope per
   source is parked in the output, and while it is parked, or once the
   terminal envelope was written, merge has no take on that source parked or
   on its way. *)
\* the envelopes written to the output so far, in order
Output ==
    [i \in 1..Len(SelectSeq(AllCalls, LAMBDA d : d.cb[1] = "take")) |->
        SelectSeq(AllCalls, LAMBDA d : d.cb[1] = "take")[i].v]
    \o [i \in 1..Len(queue) |-> queue[i].v]

\* the values of the envelopes of source c, in output order
OutputOf(c) ==
    [i \in 1..Len(SelectSeq(Output, LAMBDA e : e.chan = c)) |->
        SelectSeq(Output, LAMBDA e : e.chan = c)[i].val]

\* the values put on source c, in put order
PutOn(c) ==
    [i \in 1..Len(SelectSeq(putLog, LAMBDA e : e.via = <<"source", c>>)) |->
        SelectSeq(putLog, LAMBDA e : e.via = <<"source", c>>)[i].v]

\* merge has a take on source c parked or on its way
Reading(c) ==
    \/ \E i \in DOMAIN tapCh[c].pending : tapCh[c].pending[i] = Writer(c)
    \/ \E i \in DOMAIN ticks : ticks[i].cb \in {Writer(c), Reader(c)}

C16_Merge ==
    feat = "merge" =>
        \A c \in TapIds :
            /\ Len(OutputOf(c)) <= Len(PutOn(c))
            /\ OutputOf(c) = SubSeq(PutOn(c), 1, Len(OutputOf(c)))
            /\ \A i \in DOMAIN OutputOf(c) :
                  OutputOf(c)[i] = Null => i = Len(OutputOf(c))
            /\ Cardinality({i \in DOMAIN queue : queue[i].v.chan = c}) <= 1
            /\ (\E i \in DOMAIN queue : queue[i].v.chan = c) => ~Reading(c)
            /\ (\E i \in DOMAIN OutputOf(c) : OutputOf(c)[i] = Null) =>
                  ~Reading(c)

C16_Witness ==
    /\ feat = "merge" /\ nput = 3
    /\ PutOn(1) = <<1, Null>> /\ PutOn(2) = <<3>>
    /\ Output = <<ChannelValue(1, NoErr, 1), ChannelValue(1, NoErr, Null),
                  ChannelValue(2, NoErr, 3)>>
    /\ Len(queue) = 1 /\ ticks = <<>>

(* C17: after stream(xs, ack) and takeN(|xs|, cb) on a base channel, cb is
   called at most once and with xs, ack is called at most once, with
   (null, xs) and only when every element was put and taken; and once no
   call is left to run, both have been called. *)
C17_Stream ==
    /\ Count(TakeNCb) <= 1 /\ Count(StreamCb) <= 1
    /\ Count(TakeNCb) = 1 => TheCall(TakeNCb) = Call(TakeNCb, NoErr, array)
    /\ Count(StreamCb) = 1 =>
          /\ TheCall(StreamCb) = Call(StreamCb, NoErr, array)
          /\ streamI = Len(array) /\ queue = <<>>
    /\ ({"stream", "takeN"} \subseteq used /\ ticks = <<>>) =>
          Count(TakeNCb) = 1 /\ Count(StreamCb) = 1

(* C18: takeN(N, cb) calls cb at most once, with at most N values: the first
   N values put, or those put before the first null when it comes earlier;
   it consumes these values and that null, and nothing else. *)
\* the values put so far, in put order
PutValues == [k \in 1..nput |-> putLog[k].v]

C18_TakeN ==
    /\ Count(TakeNCb) <= 1
    /\ Count(TakeNCb) = 1 =>
          LET g == TheCall(TakeNCb).v
              taken == IF Len(g) < tnN THEN Len(g) + 1 ELSE Len(g)
          IN  /\ Len(g) <= tnN
              /\ Len(g) <= nput /\ g = SubSeq(PutValues, 1, Len(g))
              /\ \A i \in DOMAIN g : g[i] # Null
              /\ Len(g) < tnN =>
                    Len(g) < nput /\ PutValues[Len(g) + 1] = Null
              /\ taken <= nput
              /\ [i \in 1..Len(queue) |-> queue[i].v]
                    = SubSeq(PutValues, taken + 1, nput)

(* C19: takeSome(cb) parks no taker on the channel; cb is called with the
   values that were parked when takeSome was called, and it has been called
   once no call is left to run, whatever the other takers took meanwhile. *)
C19_TakeSome ==
    /\ \A i \in DOMAIN pending : pending[i] # Receive
    /\ Count(TakeNCb) <= 1
    /\ Count(TakeNCb) = 1 => TheCall(TakeNCb).v = snap
    /\ ("takeSome" \in used /\ ticks = <<>>) => Count(TakeNCb) = 1

(* C20: on ch.group(N) with N >= 1, the source's values being 1, 2, 3, ..
   in put order, the j-th take is called back at most once, with the chunk
   [(j-1)N+1 .. jN], all of whose values have been put; group(N) throws
   exactly when N <= 0. *)
C20_Chunks ==
    \A i \in DOMAIN AllCalls :
        AllCalls[i].cb[1] = "take" =>
            LET j == AllCalls[i].cb[2]
            IN  /\ Count(Taker(j)) = 1
                /\ AllCalls[i].v = [e \in 1..grpN |-> (j - 1) * grpN + e]
                /\ j * grpN <= nput

C20_Group ==
    /\ [](feat = "group" => C20_Chunks)
    /\ [][("group" \in used' /\ "group" \notin used) =>
             (threw' <=> grpN' <= 0)]_vars

(* C21: resolve(xs, false, cb) on a non-empty array of channels and values
   calls cb at most once; when it does, every channel slot has yielded and
   the array holds the value it yielded, every other slot holds what it
   held; and cb has been called once every slot has been filled. *)
\* slot i has been filled: its receiver has run
Filled(i) == \E k \in DOMAIN log : log[k].cb = Receiver(i)

C21_Resolve ==
    ("resolve" \in used /\ ~recursive /\ thing # <<>>) =>
        /\ Count(ResolveCb) <= 1
        /\ Count(ResolveCb) = 1 =>
              \A i \in DOMAIN thing :
                  IF thing[i] < 0
                  THEN /\ Filled(i)
                       /\ Call(Receiver(i), NoErr, TheCall(ResolveCb).v[i])
                              \in {log[k] : k \in DOMAIN log}
                  ELSE TheCall(ResolveCb).v[i] = thing[i]
        /\ (\A i \in DOMAIN thing : Filled(i)) => Count(ResolveCb) = 1

(* C22: resolve(xs, true, cb) on a non-empty array calls cb at most once and
   with no channel left in the array; a slot's receiver is handed a value
   that is no channel at most once (the slot is not resolved again); and cb
   has been called once every slot has got such a value. *)
\* the calls, run or scheduled, that hand slot i a value that is no channel
Finals(i) ==
    {k \in DOMAIN AllCalls :
        AllCalls[k].cb = Receiver(i) /\ AllCalls[k].v >= 0}

C22_ResolveRecursive ==
    ("resolve" \in used /\ recursive /\ thing # <<>>) =>
        /\ Count(ResolveCb) <= 1
        /\ Count(ResolveCb) = 1 =>
              \A i \in DOMAIN thing : TheCall(ResolveCb).v[i] >= 0
        /\ \A i \in DOMAIN thing : Cardinality(Finals(i)) <= 1
        /\ (\A i \in DOMAIN thing : Filled(i)) => Count(ResolveCb) = 1

(* -------------------------------- C23 ---------------------------------- *)
\* this step is boundStep running a step body that calls retry()
RetryCalled ==
    /\ taskTicks # <<>> /\ Head(taskTicks) = "step"
    /\ InstallTask(step([Task EXCEPT !.ticks = Tail(@)],
                        [op |-> "retry", id |-> Null, id2 |-> Null]))

\* the record unwind acts on: the topmost one that is no restoreState record
Top(u) ==
    IF \A i \in DOMAIN u : u[i].kind = "restore" THEN 0
    ELSE CHOOSE i \in DOMAIN u :
             /\ u[i].kind # "restore"
             /\ \A j \in (i + 1)..Len(u) : u[j].kind = "restore"
TopRecord(u) == IF Top(u) = 0 THEN NoRecord ELSE u[Top(u)]

\* this step is boundUnwind popping a retry record
RetryPopped ==
    /\ taskTicks # <<>> /\ Head(taskTicks) = "unwind"
    /\ TopRecord(state.unwinding).kind = "retry"
    /\ InstallTask(unwind([Task EXCEPT !.ticks = Tail(@)]))

\* retry() called in a catch block puts the handler of that catch block back
\* at its anchor depth with a jump to its retryStep above it, beneath the
\* records registered in the catch block, clears err and starts unwinding
\* without entering a step
RetrySplices ==
    RetryCalled /\ catches # <<>> =>
        LET c == catches[Len(catches)]
            u == state.unwinding
        IN  /\ thrown' = thrown
            /\ state'.unwinding =
                   SubSeq(u, 1, c.depth)
                   \o <<c.rec, Record("retry", c.rec.retryStep, Null, Null)>>
                   \o SubSeq(u, c.depth + 1, Len(u))
            /\ state'.err = NoErr /\ state'.args = <<NoErr>>
            /\ state'.id = state.id
            /\ taskTicks' = Append(Tail(taskTicks), "unwind")

\* when the unwinding reaches the jump, the protected block is entered with
\* err cleared and its handler on top of the unwind stack, once
RetryResumes ==
    RetryPopped =>
        LET r == TopRecord(state.unwinding)
            h == TopRecord(state'.unwinding)
        IN  /\ state'.id = r.step /\ ~state'.isUnwinding
            /\ state'.err = NoErr
            /\ h.kind = "error" /\ h.retryStep = r.step
            /\ Len(SelectSeq(state'.unwinding, LAMBDA x : x = h)) = 1
            /\ taskTicks' = Append(Tail(taskTicks), "step")

\* C23: when retry() is called inside a catch block, the cleanup records
\* registered above the anchor depth of that catch block's handler are
\* unwound in LIFO order, then the protected block guarded by that catch is
\* entered again at its retryStep, with err cleared and the same handler
\* record on top of the unwind stack exactly once; no other step is entered
\* by the retry.
C23_Retry == [][RetrySplices /\ RetryResumes]_vars

(* -------------------------------- C24 ---------------------------------- *)
\* retry() called in no catch block throws and changes nothing
RetryOutside ==
    RetryCalled /\ catches = <<>> =>
        /\ thrown' = thrown + 1
        /\ state'.unwinding = state.unwinding
        /\ state'.err = state.err /\ state'.args = state.args
        /\ taskTicks' = Tail(taskTicks)

\* retry() called in a catch block after a nested handler has caught an
\* error, and the nested catch block was left, retries the block of the
\* enclosing catch
RetryOuter ==
    (/\ RetryCalled /\ catches # <<>>
     /\ state.currentErrorStep # NoRecord
     /\ state.currentErrorStep # catches[Len(catches)].rec) =>
        LET c == catches[Len(catches)]
        IN  /\ thrown' = thrown
            /\ Len(state'.unwinding) = Len(state.unwinding) + 2
            /\ state'.unwinding[c.depth + 1] = c.rec
            /\ state'.unwinding[c.depth + 2] =
                   Record("retry", c.rec.retryStep, Null, Null)

\* C24: retry() called when the task is in no catch block (no error was
\* caught yet, the catch block that caught has been left, or a retry was
\* made since) throws and leaves the unwind stack, err and args as they
\* were; retry() called in an enclosing catch block, after a nested try /
\* catch has handled an error of its own, retries the block of the enclosing
\* catch and not the nested one.
C24_RetryOutsideCatch == [][RetryOutside /\ RetryOuter]_vars

(* -------------------------------- C25 ---------------------------------- *)
\* this step is boundUnwind
Unwinds ==
    /\ taskTicks # <<>> /\ Head(taskTicks) = "unwind"
    /\ InstallTask(unwind([Task EXCEPT !.ticks = Tail(@)]))

\* the unwind stack beneath the record unwind acts on
Beneath(u) == SubSeq(u, 1, Top(u) - 1)

\* the task is completing with callback(null, result), no error is being
\* propagated, and the unwind stack holds what pushErrorStep, pushCleanupStep
\* and the finally steps entered so far have put there
Completing ==
    /\ state.args = <<NoErr, "result">> /\ state.err = NoErr
    /\ \A i \in DOMAIN state.unwinding :
          state.unwinding[i].kind \in {"error", "cleanup", "restore"}

\* C25: while a task that registered error handlers and finally steps
\* completes with callback(null, result) and no error, every unwind acts on
\* the topmost record and on nothing beneath it: an error handler is dropped
\* without its catch step being entered, a finally step is entered (once, as
\* its record is gone), and when the stack is empty the final callback
\* receives (null, result).
C25_CleanReturn ==
    [][Unwinds /\ Completing =>
          LET w == TopRecord(state.unwinding)
              below == Beneath(state.unwinding)
          IN  /\ w.kind = "error" =>
                    /\ state'.unwinding = below
                    /\ state'.id = state.id
                    /\ state'.currentErrorStep = state.currentErrorStep
                    /\ Len(catches') <= Len(catches)
                    /\ taskTicks' = Append(Tail(taskTicks), "unwind")
                    /\ finalCalls' = finalCalls
              /\ w.kind = "cleanup" =>
                    /\ state'.unwinding =
                           Append(below, Record("restore", Null, Null, Null))
                    /\ state'.id = w.step
                    /\ taskTicks' = Append(Tail(taskTicks), "step")
                    /\ finalCalls' = finalCalls
              /\ w = NoRecord /\ ~state.isFinished =>
                    /\ finalCalls' = <<<<NoErr, "result">>>>
                    /\ state'.isFinished
                    /\ taskTicks' = Tail(taskTicks)
              /\ state'.args = state.args /\ state'.err = NoErr]_vars

\* a task registered a finally step, then an error handler, and called
\* callback(null, result): unwind has dropped the handler without entering
\* its catch step, and the finally step is next
C25_Witness ==
    /\ state.args = <<NoErr, "result">> /\ nfn = 3
    /\ state.unwinding = <<Record("cleanup", 1, Null, Null)>>
    /\ state.isUnwinding /\ taskTicks = <<"unwind">>
    /\ state.currentErrorStep = NoRecord /\ catches = <<>>

(* -------------------------------- C26 ---------------------------------- *)
\* what unwind does with the topmost record w while an error propagates, as
\* the claim has it: a handler catches, a cleanup step is entered, a cleanup
\* action runs, and any other record is dropped on the way to the handler
ErrorUnwindStep(w, below) ==
    /\ w.kind = "error" =>
          /\ state'.unwinding = below
          /\ state'.currentErrorStep = w /\ state'.id = w.step
          /\ taskTicks' = Append(Tail(taskTicks), "step")
    /\ w.kind = "cleanup" =>
          /\ state'.unwinding =
                 Append(below, Record("restore", Null, Null, Null))
          /\ state'.currentErrorStep = state.currentErrorStep
          /\ state'.id = w.step
          /\ taskTicks' = Append(Tail(taskTicks), "step")
    /\ w.kind \in {"action", "phi", "retry"} =>
          /\ state'.unwinding = below
          /\ state'.currentErrorStep = state.currentErrorStep
          /\ state'.id = state.id
          /\ taskTicks' = Append(Tail(taskTicks), "unwind")
    /\ w # NoRecord => finalCalls' = finalCalls
    /\ w = NoRecord /\ ~state.isFinished =>
          /\ finalCalls' = <<state.args>> /\ state.args[1] = state.err
          /\ taskTicks' = Tail(taskTicks)
    /\ state'.err = state.err /\ state'.args = state.args

\* C26: after callback(err) with a non-null err, every unwind acts on the
\* topmost record and on nothing beneath it: cleanup steps and cleanup
\* actions run, each once, until the nearest error handler is on top, whose
\* catch step is then entered; with no handler on the stack every cleanup
\* runs and the final callback receives err as its first argument.
C26_ErrorUnwind ==
    [][Unwinds /\ state.err # NoErr =>
          ErrorUnwindStep(TopRecord(state.unwinding),
                          Beneath(state.unwinding))]_vars

(* -------------------------------- C27 ---------------------------------- *)
\* this step is a call of abort(E) of the control API
AbortCalled ==
    /\ naborts' = naborts + 1
    /\ InstallTask(abort(Task, "aborted"))

\* this step is boundStep running a step whose body is body
StepRuns(body) ==
    /\ taskTicks # <<>> /\ Head(taskTicks) = "step"
    /\ InstallTask(step([Task EXCEPT !.ticks = Tail(@)], body))

\* this step is the first invocation of a callback made by thenTo or
\* thenToWithErr, running a step whose body is body
CallbackRuns(body) ==
    \E i \in DOMAIN thenCbs, arg \in ResumeArgs :
        /\ ~thenCbs[i].called
        /\ InstallTask(thenToCallback(Task, i, arg, body))

\* a step body that passes the error it is called with to callback(err)
PassesOn == [op |-> "throw", id |-> Null, id2 |-> Null]

\* abort(E) on a waiting task stores E and dispatches nothing
AbortStores ==
    AbortCalled /\ state.waiting > 0 =>
        /\ state' = [state EXCEPT !.abort_with_error = "aborted"]
        /\ taskTicks' = taskTicks /\ thenCbs' = thenCbs
        /\ finalCalls' = finalCalls /\ nfn' = nfn

\* abort(E) on a task that is not waiting calls callback(E)
AbortCallsBack ==
    AbortCalled /\ state.waiting <= 0 =>
        /\ state'.args = <<"aborted">> /\ state'.err = "aborted"
        /\ state'.abort_with_error = state.abort_with_error
        /\ taskTicks' = Append(taskTicks, "unwind")
        /\ finalCalls' = finalCalls

\* the next resumption calls the step function with E, whatever the
\* resumption's own arguments are
AbortDispatched ==
    (/\ state.abort_with_error # NoErr
     /\ StepRuns(PassesOn) \/ CallbackRuns(PassesOn)) =>
        /\ state'.args = <<state.abort_with_error>>
        /\ state'.err = state.abort_with_error
        /\ state'.abort_with_error = NoErr
        /\ taskTicks' # <<>>
        /\ taskTicks'[Len(taskTicks')] = "unwind"

\* E then unwinds through the finally steps to the final callback
AbortUnwinds ==
    Unwinds /\ state.err = "aborted" =>
        LET w == TopRecord(state.unwinding)
        IN  /\ w.kind = "cleanup" => state'.id = w.step
            /\ w.kind \in {"error", "action", "phi", "retry"} =>
                  /\ state'.id = state.id
                  /\ state'.currentErrorStep = state.currentErrorStep
                  /\ taskTicks' = Append(Tail(taskTicks), "unwind")
            /\ w = NoRecord /\ ~state.isFinished =>
                  finalCalls' = <<<<"aborted">>>>
            /\ state'.err = "aborted"

\* C27: abort(E) on a task that is waiting stores E and dispatches nothing;
\* the next resumption, a scheduled step or a thenTo / thenToWithErr
\* callback, calls the step function with E in place of the resumption's
\* arguments; the task then unwinds through its finally steps and the final
\* callback receives E. abort(E) on a task that is not waiting calls
\* callback(E) at once.
C27_Abort ==
    [][AbortStores /\ AbortCallsBack /\ AbortDispatched /\ AbortUnwinds]_vars

(* -------------------------------- C28 ---------------------------------- *)
\* the first step of the task started two operations, no step body has
\* called the runtime since, and abort(E) was requested: both callbacks were
\* outstanding when it was
AbortedFork == naborts >= 1 /\ nfn = 1 /\ Len(thenCbs) = 2

\* C28: after abort(E) on a task with two outstanding resumption callbacks,
\* neither callback runs a step body with its normal arguments: the first
\* invocation of each calls the step function with E, so that a step body
\* which passes its error on calls callback(E).
C28_LateResumptions ==
    [][AbortedFork /\ CallbackRuns(PassesOn) =>
          state'.args = <<"aborted">> /\ state'.err = "aborted"]_vars

(* -------------------------------- C29 ---------------------------------- *)
\* the first invocation of a callback sets the step id and calls the step
\* function (here with a body that calls nothing)
FirstInvocation ==
    \A i \in DOMAIN thenCbs :
        (~thenCbs[i].called /\ thenCbs'[i].called /\ nfn' = nfn) =>
            /\ thenCbs'[i].done
            /\ state'.id = thenCbs[i].id

\* an invocation of a callback that was invoked before changes nothing
LaterInvocation ==
    ndups' = ndups + 1 =>
        /\ state' = state
        /\ taskTicks' = taskTicks /\ finalCalls' = finalCalls
        /\ nfn' = nfn /\ thenCbs' = thenCbs

\* C29: a callback made by thenTo(id) or thenToWithErr(id) resumes the task
\* at most once: its first invocation sets the step id and calls the step
\* function; every later invocation leaves the task state (id, args, err,
\* waiting, unwind stack) as it was and dispatches nothing.
C29_ResumeOnce == [][FirstInvocation /\ LaterInvocation]_vars

(* -------------------------------- C30 ---------------------------------- *)
\* the outstanding resumptions: the steps goTo scheduled that have not run,
\* and the callbacks thenTo and thenToWithErr made that were not invoked
Outstanding ==
    Len(SelectSeq(taskTicks, LAMBDA t : t = "step"))
    + Cardinality({i \in DOMAIN thenCbs : ~thenCbs[i].called})

\* C30: state.waiting is never negative and is the number of outstanding
\* resumptions, so that isWaiting (waiting > 0) holds exactly when a
\* resumption is outstanding.
C30_Waiting ==
    /\ state.waiting >= 0
    /\ state.waiting = Outstanding
    /\ (state.waiting > 0) <=> (Outstanding > 0)

(* -------------------------------- C31 ---------------------------------- *)
\* unwind drops the topmost record and goes on unwinding
Skipped ==
    /\ state'.unwinding = Beneath(state.unwinding)
    /\ state'.id = state.id /\ state'.isUnwinding
    /\ state'.currentErrorStep = state.currentErrorStep
    /\ taskTicks' = Append(Tail(taskTicks), "unwind")

\* C31: a phi record popped while err is set or strict_unwind is true is
\* skipped: its join step is not entered and the next unwind is scheduled;
\* a phi record popped with no error and strict_unwind false winds to its
\* join step; an error handler record popped with no error is skipped.
C31_PhiRecords ==
    [][Unwinds =>
          LET w == TopRecord(state.unwinding)
          IN  /\ (w.kind = "phi"
                  /\ (state.err # NoErr \/ state.strict_unwind)) => Skipped
              /\ (w.kind = "phi"
                  /\ state.err = NoErr /\ ~state.strict_unwind) =>
                    /\ state'.unwinding = Beneath(state.unwinding)
                    /\ state'.id = w.step /\ ~state'.isUnwinding
                    /\ taskTicks' = Append(Tail(taskTicks), "step")
              /\ (w.kind = "error" /\ state.err = NoErr) => Skipped]_vars

\* after pushPhi, pushErrorStep and phi(): unwind has skipped the handler,
\* no error being set, and the phi record is next, to be wound to
C31_Witness ==
    /\ state.unwinding = <<Record("phi", 1, Null, Null)>>
    /\ state.isUnwinding /\ ~state.strict_unwind /\ state.err = NoErr
    /\ taskTicks = <<"unwind">> /\ nfn = 3
    /\ state.currentErrorStep = NoRecord

(* -------------------------------- C32 ---------------------------------- *)
\* the topmost record was registered outside every finally step that is
\* running now: no restoreState record lies beneath it
Outer(u) == \A i \in 1..(Top(u) - 1) : u[i].kind # "restore"

\* C32: once the task has called callback(null, result), every unwind runs
\* a cleanup step or a cleanup action or drops the record it pops, and the
\* final callback receives (null, result) when the stack is empty: no phi
\* record registered before the return winds to its join step, whether it
\* is popped before or after a cleanup step above it has run.
C32_Return ==
    [][(/\ Unwinds
        /\ state.args = <<NoErr, "result">> /\ state.err = NoErr) =>
          LET w == TopRecord(state.unwinding)
          IN  /\ w.kind = "phi" /\ Outer(state.unwinding) =>
                    /\ state'.id = state.id /\ state'.isUnwinding
                    /\ taskTicks' = Append(Tail(taskTicks), "unwind")
              /\ w.kind = "cleanup" =>
                    /\ state'.id = w.step
                    /\ taskTicks' = Append(Tail(taskTicks), "step")
              /\ w = NoRecord /\ ~state.isFinished =>
                    finalCalls' = <<<<NoErr, "result">>>>
              /\ state'.args = <<NoErr, "result">>]_vars
\* the dispatches of the task that are pending: scheduled steps and
\* scheduled unwinds
Pending(kind) == Cardinality({i \in 1..Len(taskTicks) : taskTicks[i] = kind})

\* C33: at most one dispatch of the task, a scheduled step or a scheduled
\* unwind, is pending in every reachable state; in particular two unwinds
\* are never pending together.
C33_OneDispatch ==
    /\ Len(taskTicks) <= 1
    /\ Pending("unwind") <= 1

\* the transition is the step that calls table.jumpToCase(sm, caseVal)
JumpRuns(table, caseVal) ==
    /\ taskTicks # <<>> /\ Head(taskTicks) = "step"
    /\ InstallTask(step([Task EXCEPT !.ticks = Tail(@)],
                        [op |-> "jumpToCase", id |-> table, id2 |-> caseVal]))

\* id + 1 + the sum of 1 + blockSize over the first n case blocks
RECURSIVE BlockStep(_, _)
BlockStep(table, n) ==
    IF n = 0 THEN table.id + 1
    ELSE BlockStep(table, n - 1) + 1 + table.blockSizes[n]

\* the case blocks of the table that hold the case value
BlocksOf(table, caseVal) ==
    {i \in 1..Len(table.cases) : caseVal \in table.cases[i]}

\* C34: jumpToCase with a case value that a block of the table holds
\* pushes one phi record for beyondID, the step after all the blocks, and
\* schedules the step where the block begins; with a case value no block
\* holds it throws, schedules no step and leaves the unwind stack as it was.
C34_JumpToCase ==
    [][\A table \in JumpTables, caseVal \in 1..MaxCase :
          JumpRuns(table, caseVal) =>
             IF BlocksOf(table, caseVal) # {}
             THEN /\ state'.unwinding =
                        Append(state.unwinding,
                               Record("phi",
                                      BlockStep(table, Len(table.cases)),
                                      Null, Null))
                  /\ \E i \in BlocksOf(table, caseVal) :
                        state'.id = BlockStep(table, i - 1)
                  /\ taskTicks' = Append(Tail(taskTicks), "step")
                  /\ thrown' = thrown
             ELSE /\ thrown' = thrown + 1
                  /\ taskTicks' = Tail(taskTicks)
                  /\ state'.unwinding = state.unwinding]_vars

====
